---- MODULE Spec2Model ----
(***************************************************************************)
(* Road Rage simulation core: race state machine (game.ts), player         *)
(* physics (player.ts), rival AI (rivals.ts), melee combat (combat.ts),    *)
(* police pursuit (police.ts) and the per-frame update of index.ts.        *)
(*                                                                         *)
(* Numbers.  The program computes in IEEE doubles; the model computes in   *)
(* exact fixed point:                                                      *)
(*   time      in 1/TU seconds      (FIXED_DT = 1/60 s = 10 units)         *)
(*   lateral x in 1/XU of the half road width                              *)
(*   speed     in 1/SU of the program's speed unit                         *)
(*   z         in world units                                              *)
(* A product with dt is rounded toward zero (Quot).  Math.random() and the *)
(* sine terms are inputs drawn from small sets.                            *)
(*                                                                         *)
(* The player's wipeout timers and attack timer are compared with whole    *)
(* numbers of ticks, so that the rounding of the doubles decides the tick  *)
(* at which they pass: these timers carry the rounding error of their      *)
(* double in a field ...Err (see DoubleRound).                             *)
(***************************************************************************)
EXTENDS Integers, Sequences, FiniteSets, TLC

VARIABLES race, player, rivals, combat, police, traffic, hits, run

vars == <<race, player, rivals, combat, police, traffic, hits, run>>

(***************************************************************************)
(* Units and bounds                                                        *)
(***************************************************************************)
TU == 600
XU == 1000
SU == 100

\* number of rivals on the grid (index.ts creates 7)
NumRivals == 2
\* the rivals index.ts puts on the grid
GRID_RIVALS == 7
\* simulated RACING ticks explored in one race
MaxRaceTicks == 20
\* races started in one behaviour
MaxRaces == 2
\* frames of one behaviour on which a key is pressed or a random draw is off
\* its mean
MaxEvents == 1
\* track selectors handed to generateRoad reach from -MaxSelector to
\* MaxSelector + 3
MaxSelector == 30
\* animation frames of one run of the game loop
MaxFrames == 4

(***************************************************************************)
(* Arithmetic helpers                                                      *)
(***************************************************************************)
Abs(a) == IF a < 0 THEN -a ELSE a

Max(a, b) == IF a > b THEN a ELSE b

Min(a, b) == IF a < b THEN a ELSE b

Clamp(lo, v, hi) == Max(lo, Min(hi, v))

\* quotient rounded toward zero
Quot(a, b) == IF a >= 0 THEN a \div b ELSE -((-a) \div b)

\* JavaScript remainder: the sign follows the dividend
JsMod(a, b) == IF a >= 0 THEN a % b ELSE -((-a) % b)

\* Math.round(a / b) for b > 0: halves round up
RoundDiv(a, b) == (2 * a + b) \div (2 * b)

(***************************************************************************)
(* IEEE doubles of the tick timers.  The double 1/60 is m * 2^-58 with     *)
(* m = (2^56 - 1) / 15, so that 60 * m = 2^58 - 4 and m % 256 = 17.  A     *)
(* timer that starts at a multiple of 1/60 s and moves by dt each tick     *)
(* holds the double (k * m + e) * 2^-58 with k a number of ticks,          *)
(* |k| <= 240, and e a small integer: the model keeps k * FIXED_DT in the  *)
(* timer field and e in its Err field.                                     *)
(***************************************************************************)
\* distance, in 2^-58, between the doubles around k * m + e
DoubleGrid(k, e) ==
  LET a == IF k < 0 THEN -k ELSE k
      s == IF k < 0 THEN -e ELSE e
  IN  IF a > 120 \/ (a = 120 /\ s >= 8) THEN 128
      ELSE IF a > 60 \/ (a = 60 /\ s >= 4) THEN 64
      ELSE IF a > 30 \/ (a = 30 /\ s >= 2) THEN 32
      ELSE IF a > 15 \/ (a = 15 /\ s >= 1) THEN 16
      ELSE IF a >= 8 THEN 8
      ELSE IF a >= 4 THEN 4
      ELSE IF a >= 2 THEN 2
      ELSE 1

\* round to nearest, ties to even: r is the value modulo 2 * g
DoubleNearest(e, g, r) ==
  IF g = 1 THEN e
  ELSE IF 2 * r <= g THEN e - r
  ELSE IF 2 * r < 3 * g THEN e + g - r
  ELSE e + 2 * g - r

DoubleOnGrid(k, e, g) == DoubleNearest(e, g, (17 * k + e) % (2 * g))

\* the error of the double that a sum or difference k * m + e rounds to
DoubleRound(k, e) == DoubleOnGrid(k, e, DoubleGrid(k, e))

\* the error of the double nearest to K / 60, which is K * m + K / 15
DoubleLiteral(K, g, r) ==
  IF g = 1 THEN 0
  ELSE IF 2 * (15 * r + K) <= 15 * g THEN -r
  ELSE IF 2 * (15 * r + K) < 45 * g THEN g - r
  ELSE 2 * g - r

DoubleLiteralOnGrid(K, g) == DoubleLiteral(K, g, (17 * K) % (2 * g))

DoubleOf(K) == DoubleLiteralOnGrid(K, DoubleGrid(K, K \div 15))

\* t1 < t2 for the doubles of the timer values t1, t2 with errors e1, e2
DoubleLess(t1, e1, t2, e2) == t1 < t2 \/ (t1 = t2 /\ e1 < e2)

\* t <= 0 for the double of the timer value t with error e
DoubleLeq0(t, e) == t < 0 \/ (t = 0 /\ e <= 0)

(***************************************************************************)
(* engine/game-loop.ts                                                     *)
(***************************************************************************)
FIXED_DT == TU \div 60

(***************************************************************************)
(* road.ts                                                                 *)
(***************************************************************************)
SEGMENT_LENGTH == 200

TRACK_SEGMENT_COUNTS == <<4000, 4500, 3500, 5000>>

\* the track raced in the model: progression.currentTrackIndex
TrackId == 0

(***************************************************************************)
(* GameLoop (engine): time in 1/TU s.  The page's clock stands at 1/TU s   *)
(* when the first animation frame runs.                                    *)
(***************************************************************************)
\* a cap of six steps
MAX_ACCUMULATOR_Six == FIXED_DT * 6

MAX_ACCUMULATOR == FIXED_DT * 5

\* new GameLoop()
createGameLoop ==
  [ running |-> FALSE, paused |-> FALSE, lastTime |-> 0, accumulator |-> 0,
    calls |-> << >>, clock |-> 1, frames |-> 0 ]

\* while (accumulator >= FIXED_DT) { updateFn(FIXED_DT); accumulator -= FIXED_DT }
RECURSIVE Drain(_)
Drain(l) ==
  IF l.accumulator >= FIXED_DT
    THEN Drain([l EXCEPT !.calls = Append(@, FIXED_DT),
                         !.accumulator = @ - FIXED_DT])
    ELSE l

\* tick(timestamp) of a running loop
tick(l, timestamp) ==
  LET seen == [l EXCEPT !.clock = timestamp, !.frames = @ + 1, !.calls = << >>] IN
  IF l.lastTime = 0 THEN [seen EXCEPT !.lastTime = timestamp]
  ELSE IF l.paused THEN [seen EXCEPT !.lastTime = timestamp]
  ELSE Drain([seen EXCEPT !.lastTime = timestamp,
                          !.accumulator = Min(@ + (timestamp - l.lastTime),
                                              MAX_ACCUMULATOR)])

\* a clamp that stops one track short
ClampTrackId_Short(trackId) == Max(0, Min(2, trackId))

\* generateRoad: clamp of the selector and segment count of the track
ClampTrackId(trackId) == Max(0, Min(3, trackId))

\* generateRoad(trackId): the track generated and the length of the returned
\* array of segments
generateRoad(trackId) ==
  [ trackId |-> ClampTrackId(trackId),
    segments |-> TRACK_SEGMENT_COUNTS[ClampTrackId(trackId) + 1] ]

SegCount(trackId) == TRACK_SEGMENT_COUNTS[ClampTrackId(trackId) + 1]

TotalLength == SegCount(TrackId) * SEGMENT_LENGTH

\* easeInOut(t) = (1 - cos(pi t)) / 2 in 1/1000, tabulated at t = k / 20
EASE_TABLE ==
  << 0, 6, 24, 54, 95, 146, 206, 273, 345, 422, 500, 578, 655, 727, 794, 854, 905, 946, 976, 994, 1000 >>

\* easeInOut(i / n) for 0 <= i < n, read from the table at the step below i / n
easeInOut(i, n) == EASE_TABLE[((20 * i) \div n) + 1]

\* the addRoad calls of generateDesertHighway (track 0): first segment,
\* length and curve in 1/XU; the closing calls of the while loop carry
\* sin(i * 0.005) * 0.2 for their start i
DESERT_HIGHWAY ==
  << [start |-> 0, count |-> 120, curve |-> 0],
     [start |-> 120, count |-> 200, curve |-> 250],
     [start |-> 320, count |-> 100, curve |-> 0],
     [start |-> 420, count |-> 180, curve |-> -300],
     [start |-> 600, count |-> 150, curve |-> 0],
     [start |-> 750, count |-> 200, curve |-> 400],
     [start |-> 950, count |-> 120, curve |-> 0],
     [start |-> 1070, count |-> 220, curve |-> -350],
     [start |-> 1290, count |-> 80, curve |-> 0],
     [start |-> 1370, count |-> 160, curve |-> 200],
     [start |-> 1530, count |-> 200, curve |-> 0],
     [start |-> 1730, count |-> 200, curve |-> -250],
     [start |-> 1930, count |-> 140, curve |-> 0],
     [start |-> 2070, count |-> 200, curve |-> 350],
     [start |-> 2270, count |-> 100, curve |-> 0],
     [start |-> 2370, count |-> 180, curve |-> 0],
     [start |-> 2550, count |-> 200, curve |-> -300],
     [start |-> 2750, count |-> 160, curve |-> 200],
     [start |-> 2910, count |-> 120, curve |-> 0],
     [start |-> 3030, count |-> 200, curve |-> -200],
     [start |-> 3230, count |-> 100, curve |-> 0],
     [start |-> 3330, count |-> 180, curve |-> 300],
     [start |-> 3510, count |-> 140, curve |-> -193],
     [start |-> 3650, count |-> 140, curve |-> -113],
     [start |-> 3790, count |-> 140, curve |-> 20],
     [start |-> 3930, count |-> 70, curve |-> 144] >>

\* curve that addRoad gives segment segIdx of its section
addRoad(sec, segIdx) ==
  LET i     == segIdx - sec.start
      enter == sec.count \div 4
      hold  == sec.count \div 2
      exit  == sec.count - enter - hold
  IN  IF i < enter THEN Quot(sec.curve * easeInOut(i, Max(enter, 1)), 1000)
      ELSE IF i < enter + hold THEN sec.curve
      ELSE Quot(sec.curve * (1000 - easeInOut(i - enter - hold, Max(exit, 1))), 1000)

\* road[segIdx].curve of track 0, in 1/XU
RoadCurve(segIdx) ==
  LET k == CHOOSE j \in 1..Len(DESERT_HIGHWAY) :
              /\ DESERT_HIGHWAY[j].start <= segIdx
              /\ segIdx < DESERT_HIGHWAY[j].start + DESERT_HIGHWAY[j].count
  IN  addRoad(DESERT_HIGHWAY[k], segIdx)

\* Math.floor(z / SEGMENT_LENGTH) % road.length
SegIdx(z) == JsMod(z \div SEGMENT_LENGTH, SegCount(TrackId))

\* wrappedDelta(a, b, total); total / 2 is exact for every track length
wrappedDelta(a, b, total) ==
  LET d  == a - b
      d1 == IF 2 * d > total THEN d - total ELSE d
  IN  IF 2 * d1 < -total THEN d1 + total ELSE d1

\* forward motion of one tick: speed * SEGMENT_LENGTH * dt
Advance(speed) == Quot(speed * SEGMENT_LENGTH * FIXED_DT, SU * TU)

(***************************************************************************)
(* progression.ts: the default bike (createProgression: 'rattler')         *)
(***************************************************************************)
BIKE_MAX_SPEED == 280 * SU

BIKE_ACCELERATION == 180 * SU

BIKE_HANDLING == 12

BIKE_TOUGHNESS == 8

(***************************************************************************)
(* player.ts                                                               *)
(***************************************************************************)
MAX_SPEED == 300 * SU

BRAKING == 400 * SU

DECELERATION == 100 * SU

TURN_SPEED == 3 * XU

PLAYER_CENTRIFUGAL_FORCE == (6 * XU) \div 10

\* CENTRIFUGAL_FORCE * speedRatio * curve * dt of updatePlayer, in 1/XU, for a
\* speed ratio r in 1/1000 and a curve cv in 1/XU
PlayerCentrifugal(r, cv) ==
  Quot(PLAYER_CENTRIFUGAL_FORCE * r * cv * FIXED_DT, 1000 * XU * TU)

OFFROAD_SPEED_CAP == (MAX_SPEED * 2) \div 10

\* 0.02 in 1/XU
OFFROAD_RUMBLE_AMP == 20

OFFROAD_RUMBLE_FREQ == 40

\* Math.sin(player.z * OFFROAD_RUMBLE_FREQ) * OFFROAD_RUMBLE_AMP in 1/XU for a
\* position in whole units: the phase in milliradians modulo 2 pi, the sine
\* by Bhaskara's formula 16 x (pi - x) / (5 pi^2 - 4 x (pi - x))
OffroadRumble(z) ==
  LET ph == (z * ((OFFROAD_RUMBLE_FREQ * 1000) % 6283)) % 6283
      x  == IF ph < 3142 THEN ph ELSE ph - 3142
      a  == x * (3142 - x)
      s  == (OFFROAD_RUMBLE_AMP * 16 * a) \div (49348022 - 4 * a)
  IN  IF ph < 3142 THEN s ELSE -s

GEAR_THRESHOLDS == <<330, 660>>

GEAR_SHIFT_DIP == 350

GEAR_SHIFT_ZONE == 30

DRAFT_Z_RANGE == 300

DRAFT_X_RANGE == XU \div 4

DRAFT_SPEED_BONUS == 8

PLAYER_WIPEOUT_DURATION == 2 * TU

WIPEOUT_RESPAWN_HEALTH == 40

PHASE_LAUNCH == (4 * TU) \div 10

PHASE_TUMBLE == (5 * TU) \div 10

PHASE_GETUP == (3 * TU) \div 10

PHASE_RUN == (8 * TU) \div 10

\* createPlayer followed by applyBikeStats(player, getCurrentBike(...))
createPlayer ==
  [ x |-> 0, z |-> 0, speed |-> 0,
    maxSpeed |-> BIKE_MAX_SPEED,
    accel |-> BIKE_ACCELERATION,
    decel |-> DECELERATION,
    braking |-> BRAKING,
    turnSpeed |-> (TURN_SPEED * BIKE_HANDLING) \div 10,
    health |-> RoundDiv(100 * BIKE_TOUGHNESS, 10),
    maxHealth |-> RoundDiv(100 * BIKE_TOUGHNESS, 10),
    isWipedOut |-> FALSE, wipeoutTimer |-> 0, wipeoutTimerErr |-> 0,
    lean |-> 0,
    wipeoutPhase |-> "none", wipeoutPhaseTimer |-> 0, wipeoutPhaseTimerErr |-> 0,
    bikeSlideSpeed |-> 0, offroad |-> FALSE ]

\* gear-shift dip of the acceleration, in 1/1000; r is speed/maxSpeed in 1/1000
GearDip(r) ==
  LET d1 == Abs(r - GEAR_THRESHOLDS[1])
      d2 == Abs(r - GEAR_THRESHOLDS[2])
  IN  IF d1 < GEAR_SHIFT_ZONE
        THEN 1000 - (GEAR_SHIFT_DIP * (GEAR_SHIFT_ZONE - d1)) \div GEAR_SHIFT_ZONE
      ELSE IF d2 < GEAR_SHIFT_ZONE
        THEN 1000 - (GEAR_SHIFT_DIP * (GEAR_SHIFT_ZONE - d2)) \div GEAR_SHIFT_ZONE
      ELSE 1000

\* speed after the accelerate / brake / friction branch
Throttle(p, inp) ==
  LET r    == (p.speed * 1000) \div p.maxSpeed
      base == 1000000 - r * r
      step == Quot(((p.accel * FIXED_DT) \div TU) * base, 1000000)
  IN  IF inp.accel THEN p.speed + Quot(step * GearDip(r), 1000)
      ELSE IF inp.brake THEN p.speed - (p.braking * FIXED_DT) \div TU
      ELSE p.speed - (p.decel * FIXED_DT) \div TU

\* TRUE when some rival is close ahead in the player's lane (slipstream)
Drafting(p, rv) ==
  \E i \in 1..Len(rv) :
     LET dz == rv[i].z - p.z
     IN  dz > 0 /\ dz < DRAFT_Z_RANGE /\ Abs(rv[i].x - p.x) < DRAFT_X_RANGE

phaseDuration(phase) ==
  CASE phase = "none"   -> 0
    [] phase = "launch" -> PHASE_LAUNCH
    [] phase = "tumble" -> PHASE_TUMBLE
    [] phase = "getup"  -> PHASE_GETUP
    [] phase = "run"    -> PHASE_RUN

\* a phase switch that goes from launch straight to getup
NextWipeoutPhase_Skip(phase) ==
  CASE phase = "launch" -> "getup"
    [] phase = "tumble" -> "getup"
    [] phase = "getup"  -> "run"
    [] OTHER            -> phase

\* the phase after the "advance phase" switch of updateWipeout
NextWipeoutPhase(phase) ==
  CASE phase = "launch" -> "tumble"
    [] phase = "tumble" -> "getup"
    [] phase = "getup"  -> "run"
    [] OTHER            -> phase

\* a recovery that restores full health
Recover_FullHealth(q) ==
  [q EXCEPT !.isWipedOut = FALSE, !.wipeoutTimer = 0, !.wipeoutTimerErr = 0,
            !.wipeoutPhase = "none", !.wipeoutPhaseTimer = 0,
            !.wipeoutPhaseTimerErr = 0,
            !.health = q.maxHealth, !.x = 0, !.lean = 0,
            !.bikeSlideSpeed = 0, !.speed = 0]

\* the "Recovery" block of updateWipeout
Recover(q) ==
  [q EXCEPT !.isWipedOut = FALSE, !.wipeoutTimer = 0, !.wipeoutTimerErr = 0,
            !.wipeoutPhase = "none", !.wipeoutPhaseTimer = 0,
            !.wipeoutPhaseTimerErr = 0,
            !.health = WIPEOUT_RESPAWN_HEALTH, !.x = 0, !.lean = 0,
            !.bikeSlideSpeed = 0, !.speed = 0]

updateWipeout(p) ==
  LET wt  == p.wipeoutTimer - FIXED_DT
      we  == DoubleRound(wt \div FIXED_DT, p.wipeoutTimerErr)
      pt0 == p.wipeoutPhaseTimer - FIXED_DT
      pe0 == DoubleRound(pt0 \div FIXED_DT, p.wipeoutPhaseTimerErr)
      adv == DoubleLeq0(pt0, pe0) /\ p.wipeoutPhase \in {"launch", "tumble", "getup"}
      ph  == IF adv THEN NextWipeoutPhase(p.wipeoutPhase) ELSE p.wipeoutPhase
      pt  == IF adv THEN phaseDuration(ph) ELSE pt0
      pe  == IF adv THEN DoubleOf(phaseDuration(ph) \div FIXED_DT) ELSE pe0
      brk == (p.braking * FIXED_DT) \div TU
      sp  == CASE ph = "launch" -> Max(0, p.speed - brk)
               [] ph = "tumble" -> Max(0, p.speed - 2 * brk)
               [] ph = "getup"  -> Max(0, p.speed - 3 * brk)
               [] ph = "run"    -> 0
               [] OTHER         -> p.speed
      sl  == CASE ph = "launch" -> Max(0, p.bikeSlideSpeed - (300 * SU * FIXED_DT) \div TU)
               [] ph = "tumble" -> Max(0, p.bikeSlideSpeed - (400 * SU * FIXED_DT) \div TU)
               [] OTHER         -> p.bikeSlideSpeed
      ln  == IF ph \in {"launch", "tumble"} THEN p.lean ELSE (p.lean * 9) \div 10
      q   == [p EXCEPT !.wipeoutTimer = wt, !.wipeoutTimerErr = we,
                       !.wipeoutPhaseTimer = pt, !.wipeoutPhaseTimerErr = pe,
                       !.wipeoutPhase = ph, !.speed = sp, !.bikeSlideSpeed = sl,
                       !.lean = ln, !.z = p.z + Advance(sp)]
  IN  IF DoubleLeq0(wt, we) THEN Recover(q) ELSE q

\* the player that starts a wipeout (player.ts 243-255, game.ts 368-379)
StartWipeout(p) ==
  [p EXCEPT !.isWipedOut = TRUE, !.wipeoutTimer = PLAYER_WIPEOUT_DURATION,
            !.wipeoutTimerErr = DoubleOf(PLAYER_WIPEOUT_DURATION \div FIXED_DT),
            !.wipeoutPhase = "launch", !.wipeoutPhaseTimer = PHASE_LAUNCH,
            !.wipeoutPhaseTimerErr = DoubleOf(PHASE_LAUNCH \div FIXED_DT),
            !.health = 0, !.bikeSlideSpeed = (p.speed * 6) \div 10]

\* a speed update without the final clamp
PlayerSpeed_Unclamped(p, inp, rv) ==
  LET s1 == Throttle(p, inp)
            + (IF Drafting(p, rv)
                 THEN (p.maxSpeed * DRAFT_SPEED_BONUS * FIXED_DT) \div (100 * TU)
                 ELSE 0)
  IN  IF Abs(p.x) > XU /\ s1 > OFFROAD_SPEED_CAP
        THEN s1 - (p.braking * 25 * FIXED_DT) \div (10 * TU)
        ELSE s1

\* the speed after throttle, drafting, the offroad penalty and the clamp
PlayerSpeed(p, inp, rv) ==
  LET s1 == Throttle(p, inp)
            + (IF Drafting(p, rv)
                 THEN (p.maxSpeed * DRAFT_SPEED_BONUS * FIXED_DT) \div (100 * TU)
                 ELSE 0)
  IN  Max(0, Min(IF Abs(p.x) > XU /\ s1 > OFFROAD_SPEED_CAP
                   THEN s1 - (p.braking * 25 * FIXED_DT) \div (10 * TU)
                   ELSE s1,
                 p.maxSpeed))

\* a lateral update that rumbles on the road as well
PlayerSteer_Rumbling(p, inp, sp, cv) ==
  LET off  == Abs(p.x) > XU
      x1   == p.x + OffroadRumble(p.z) + inp.jitter
      r    == (sp * 1000) \div p.maxSpeed
      turn == ((1000 - (r * 3) \div 4) * (IF inp.accel THEN 10 ELSE 14)) \div 10
      st   == IF inp.right THEN 1 ELSE IF inp.left THEN -1 ELSE 0
      x2   == x1 + st * Quot(((p.turnSpeed * FIXED_DT) \div TU) * turn, 1000)
      x3   == x2 - PlayerCentrifugal(r, cv)
      tl   == IF st # 0 THEN st * XU ELSE -Quot(cv * r, 2000)
      ln   == p.lean + Quot((tl - p.lean) * 8 * FIXED_DT, TU)
  IN  [p EXCEPT !.speed = sp, !.x = x3, !.lean = ln, !.offroad = off,
                !.z = p.z + Advance(sp)]

\* steering, the centrifugal pull of curve cv, the lean and the move forward
\* at the new speed sp
PlayerSteer(p, inp, sp, cv) ==
  LET off  == Abs(p.x) > XU
      x1   == IF off THEN p.x + OffroadRumble(p.z) + inp.jitter ELSE p.x
      r    == (sp * 1000) \div p.maxSpeed
      turn == ((1000 - (r * 3) \div 4) * (IF inp.accel THEN 10 ELSE 14)) \div 10
      st   == IF inp.right THEN 1 ELSE IF inp.left THEN -1 ELSE 0
      x2   == x1 + st * Quot(((p.turnSpeed * FIXED_DT) \div TU) * turn, 1000)
      x3   == x2 - PlayerCentrifugal(r, cv)
      tl   == IF st # 0 THEN st * XU ELSE -Quot(cv * r, 2000)
      ln   == p.lean + Quot((tl - p.lean) * 8 * FIXED_DT, TU)
  IN  [p EXCEPT !.speed = sp, !.x = x3, !.lean = ln, !.offroad = off,
                !.z = p.z + Advance(sp)]

\* a wipeout check that fires at health 0 only
WipeoutCheck_Zero(q) == IF q.health = 0 THEN StartWipeout(q) ELSE q

\* "Wipeout check" at the end of updatePlayer
WipeoutCheck(q) == IF q.health <= 0 THEN StartWipeout(q) ELSE q

updatePlayer(p, inp, rv) ==
  IF p.isWipedOut THEN updateWipeout(p)
  ELSE WipeoutCheck(PlayerSteer(p, inp, PlayerSpeed(p, inp, rv), RoadCurve(SegIdx(p.z))))

(***************************************************************************)
(* rivals.ts                                                               *)
(***************************************************************************)
RIVAL_PROFILES ==
  << [name |-> "BLAZE",  personality |-> "aggressive"],
     [name |-> "VIPER",  personality |-> "aggressive"],
     [name |-> "SHADOW", personality |-> "defensive"],
     [name |-> "GHOST",  personality |-> "defensive"],
     [name |-> "FURY",   personality |-> "reckless"],
     [name |-> "STORM",  personality |-> "reckless"],
     [name |-> "RAZOR",  personality |-> "aggressive"] >>

RIVAL_WIPEOUT_DURATION == 2 * TU

RIVAL_COLLISION_Z == 100

RIVAL_COLLISION_X == (3 * XU) \div 10

RUBBER_BAND_RANGE == 5000

LANE_CHANGE_MIN == (15 * TU) \div 10

LANE_CHANGE_MAX == 4 * TU

RIVAL_CENTRIFUGAL_FORCE == (3 * XU) \div 10

\* CENTRIFUGAL_FORCE * speedRatio * curve * dt of updateRivals
RivalCentrifugal(r, cv) ==
  Quot(RIVAL_CENTRIFUGAL_FORCE * r * cv * FIXED_DT, 1000 * XU * TU)

\* createRivals(count, roadLength)[i + 1]
createRival(i, count) ==
  LET profile == RIVAL_PROFILES[(i % Len(RIVAL_PROFILES)) + 1]
      base    == 180 * SU + (100 * SU * i) \div Max(count - 1, 1)
  IN  [ x |-> -((6 * XU) \div 10) + (12 * XU * i) \div (10 * Max(count - 1, 1)),
        z |-> 2000 + i * 800,
        speed |-> base, baseSpeed |-> base,
        health |-> 100, maxHealth |-> 100,
        isWipedOut |-> FALSE, wipeoutTimer |-> 0,
        personality |-> profile.personality, name |-> profile.name,
        targetX |-> 0, laneChangeTimer |-> TU + (4 * TU * i) \div 10 ]

createRivals(count) == [i \in 1..count |-> createRival(i - 1, count)]

\* rnd is Math.random() in 1/1000
pickTargetX(rival, p, dzToPlayer, rnd) ==
  LET nearPlayer == Abs(dzToPlayer) < 2000
  IN  CASE rival.personality = "aggressive" ->
             IF nearPlayer THEN p.x + Quot((rnd - 500) * 80, 1000)
                           ELSE Quot((rnd - 500) * 1400, 1000)
        [] rival.personality = "defensive" ->
             IF nearPlayer
               THEN Clamp(-XU, (IF rival.x > p.x THEN 800 ELSE -800)
                                 + Quot((rnd - 500) * 200, 1000), XU)
               ELSE Quot((rnd - 500) * 600, 1000)
        [] rival.personality = "reckless" -> Quot((rnd - 500) * 2000, 1000)
        [] OTHER -> 0

\* a recovery that leaves the health as it is
RivalWipeout_NoHeal(rival) ==
  LET wt == rival.wipeoutTimer - FIXED_DT
      s0 == Max(0, rival.speed - (rival.baseSpeed * 2 * FIXED_DT) \div TU)
  IN  IF wt <= 0
        THEN [rival EXCEPT !.wipeoutTimer = wt, !.isWipedOut = FALSE,
                           !.speed = rival.baseSpeed \div 2,
                           !.z = (rival.z + Advance(rival.baseSpeed \div 2)) % TotalLength]
        ELSE [rival EXCEPT !.wipeoutTimer = wt, !.speed = s0,
                           !.z = (rival.z + Advance(s0)) % TotalLength]

\* the wipeout branch of the loop of updateRivals
RivalWipeout(rival) ==
  LET wt == rival.wipeoutTimer - FIXED_DT
      s0 == Max(0, rival.speed - (rival.baseSpeed * 2 * FIXED_DT) \div TU)
  IN  IF wt <= 0
        THEN [rival EXCEPT !.wipeoutTimer = wt, !.isWipedOut = FALSE,
                           !.health = rival.maxHealth,
                           !.speed = rival.baseSpeed \div 2,
                           !.z = (rival.z + Advance(rival.baseSpeed \div 2)) % TotalLength]
        ELSE [rival EXCEPT !.wipeoutTimer = wt, !.speed = s0,
                           !.z = (rival.z + Advance(s0)) % TotalLength]

\* the target speed of a rival: noise, personality and rubber banding; dz
\* is the wrapped distance to the player
RivalTargetSpeed(rival, dz, inp) ==
  LET t0 == Quot(rival.baseSpeed * (1000 + inp.noise), 1000)
      t1 == CASE rival.personality = "reckless"  -> (t0 * 112) \div 100
              [] rival.personality = "defensive" -> (t0 * 95) \div 100
              [] OTHER -> t0
  IN  IF dz < -RUBBER_BAND_RANGE THEN (t1 * 115) \div 100
      ELSE IF dz > RUBBER_BAND_RANGE THEN (t1 * 88) \div 100
      ELSE t1

\* the speed of a rival after it has moved toward its target speed
RivalSpeed(rival, dz, inp) ==
  Max(0, rival.speed + Quot((RivalTargetSpeed(rival, dz, inp) - rival.speed) * 2 * FIXED_DT, TU))

\* the lane change of a rival: laneChangeTimer and targetX
RivalLane(rival, p, dz, inp) ==
  LET lt0  == rival.laneChangeTimer - FIXED_DT
      intv == CASE rival.personality = "aggressive" -> LANE_CHANGE_MIN
                [] rival.personality = "reckless"   -> LANE_CHANGE_MIN \div 2
                [] OTHER -> LANE_CHANGE_MAX
  IN  IF lt0 <= 0
        THEN [rival EXCEPT !.targetX = pickTargetX(rival, p, dz, inp.rndTarget),
                           !.laneChangeTimer = intv + (inp.rndInterval * intv) \div 1000]
        ELSE [rival EXCEPT !.laneChangeTimer = lt0]

\* steering toward targetX, the centrifugal pull of curve cv, the move
\* forward at speed sp and the crash of a reckless rival
RivalRide(rival, sp, cv, inp) ==
  LET mult == CASE rival.personality = "reckless"   -> 25
                [] rival.personality = "aggressive" -> 18
                [] OTHER -> 12
      x1   == Clamp(-XU, rival.x + Quot((rival.targetX - rival.x) * mult * FIXED_DT, 10 * TU), XU)
      x2   == x1 - RivalCentrifugal((sp * 1000) \div (300 * SU), cv)
      crsh == rival.personality = "reckless" /\ Abs(cv) > (3 * XU) \div 10
              /\ sp * 10 > 7 * 300 * SU
              /\ inp.crash
  IN  [rival EXCEPT !.speed = IF crsh THEN (sp * 2) \div 10 ELSE sp,
                    !.x = x2, !.z = (rival.z + Advance(sp)) % TotalLength,
                    !.isWipedOut = crsh,
                    !.wipeoutTimer = IF crsh THEN RIVAL_WIPEOUT_DURATION
                                             ELSE rival.wipeoutTimer,
                    !.health = IF crsh THEN 0 ELSE rival.health]

\* the collision of a rival with the player; the result carries the
\* collision flag of this rival in field hit
RivalContact(r1, p) ==
  IF /\ ~p.isWipedOut
     /\ Abs(wrappedDelta(r1.z, p.z, TotalLength)) < RIVAL_COLLISION_Z
     /\ Abs(r1.x - p.x) < RIVAL_COLLISION_X
    THEN [rival |-> [r1 EXCEPT !.speed = (r1.speed * 92) \div 100,
                               !.health = r1.health - 5,
                               !.isWipedOut = r1.isWipedOut \/ r1.health - 5 <= 0,
                               !.wipeoutTimer =
                                  IF r1.health - 5 <= 0 THEN RIVAL_WIPEOUT_DURATION
                                                        ELSE r1.wipeoutTimer],
          hit |-> TRUE]
    ELSE [rival |-> r1, hit |-> FALSE]

\* the steps of a rival that is not wiped out, for its wrapped distance dz
\* to the player
RivalAdvance(rival, p, dz, inp) ==
  RivalContact(RivalRide(RivalLane(rival, p, dz, inp), RivalSpeed(rival, dz, inp),
                         RoadCurve(SegIdx(rival.z)), inp),
               p)

\* one iteration of the loop of updateRivals
updateRival(rival, p, inp) ==
  IF rival.isWipedOut
    THEN [rival |-> RivalWipeout(rival), hit |-> FALSE]
    ELSE RivalAdvance(rival, p, wrappedDelta(rival.z, p.z, TotalLength), inp)

\* the rivals after the loop and the returned playerHit
RivalsResult(res) ==
  [rivals |-> [i \in 1..Len(res) |-> res[i].rival],
   playerHit |-> \E i \in 1..Len(res) : res[i].hit]

updateRivals(rv, p, inp) ==
  RivalsResult([i \in 1..Len(rv) |-> updateRival(rv[i], p, inp)])

(***************************************************************************)
(* combat.ts                                                               *)
(***************************************************************************)
WEAPON_STATS ==
  [ fist  |-> [damage |-> 15, rangeX |-> (30 * XU) \div 100, rangeZ |-> 150,
               cooldown |-> (4 * TU) \div 10, maxUses |-> -1],
    chain |-> [damage |-> 25, rangeX |-> (45 * XU) \div 100, rangeZ |-> 200,
               cooldown |-> (6 * TU) \div 10, maxUses |-> 3],
    club  |-> [damage |-> 35, rangeX |-> (35 * XU) \div 100, rangeZ |-> 180,
               cooldown |-> (8 * TU) \div 10, maxUses |-> 5] ]

WIND_UP == TU \div 10

ACTIVE_WINDOW == (15 * TU) \div 100

RECOVERY == (2 * TU) \div 10

TOTAL_ATTACK == WIND_UP + ACTIVE_WINDOW + RECOVERY

\* the rounding errors of the doubles WIND_UP, WIND_UP + ACTIVE_WINDOW and
\* TOTAL_ATTACK
WindUpErr == DoubleOf(WIND_UP \div FIXED_DT)

ActiveEndErr ==
  DoubleRound((WIND_UP + ACTIVE_WINDOW) \div FIXED_DT,
              WindUpErr + DoubleOf(ACTIVE_WINDOW \div FIXED_DT))

TotalAttackErr ==
  DoubleRound(TOTAL_ATTACK \div FIXED_DT, ActiveEndErr + DoubleOf(RECOVERY \div FIXED_DT))

\* CRITICAL_MULTIPLIER = 1.5, in 1/10
CRITICAL_MULTIPLIER == 15

COMBO_WINDOW == 3 * TU

COMBO_THRESHOLD == 3

RIVAL_ATTACK_RANGE_X == (3 * XU) \div 10

RIVAL_ATTACK_RANGE_Z == 150

RIVAL_ATTACK_DURATION == (35 * TU) \div 100

RIVAL_ATTACK_COOLDOWN == (15 * TU) \div 10

RIVAL_KNOCKBACK_X == (15 * XU) \div 100

\* RIVAL_KNOCKBACK_SPEED = 0.7, in 1/10
RIVAL_KNOCKBACK_SPEED == 7

RIVAL_TELEGRAPH_DURATION == (4 * TU) \div 10

RIVAL_COUNTER_WINDOW == 2 * TU

createRivalCombatState ==
  [ isAttacking |-> FALSE, attackTimer |-> 0, cooldownTimer |-> 0,
    wasHitRecently |-> FALSE, wasHitTimer |-> 0, wasHitTimerErr |-> 0,
    telegraphing |-> FALSE, telegraphTimer |-> 0 ]

createCombatState(rivalCount) ==
  [ isAttacking |-> FALSE, attackType |-> "null", attackSide |-> "right",
    attackTimer |-> 0, attackTimerErr |-> 0, attackDuration |-> TOTAL_ATTACK,
    cooldown |-> WEAPON_STATS.fist.cooldown, cooldownTimer |-> 0,
    damage |-> WEAPON_STATS.fist.damage,
    range |-> [x |-> WEAPON_STATS.fist.rangeX, z |-> WEAPON_STATS.fist.rangeZ],
    rivalStates |-> [i \in 1..rivalCount |-> createRivalCombatState],
    hitSet |-> {},
    attackPhase |-> "NONE",
    weapon |-> [type |-> "fist", uses |-> -1],
    weaponPickups |-> << >>,
    comboHits |-> << >> ]

spawnWeaponPickup(c, type, z, x) ==
  [c EXCEPT !.weaponPickups =
              Append(c.weaponPickups, [type |-> type, z |-> z, x |-> x, collected |-> FALSE])]

\* applyWeaponStats after combat.weapon was set to a weapon of this type
applyWeaponStats(c, type) ==
  [c EXCEPT !.damage = WEAPON_STATS[type].damage,
            !.range = [x |-> WEAPON_STATS[type].rangeX, z |-> WEAPON_STATS[type].rangeZ],
            !.cooldown = WEAPON_STATS[type].cooldown]

\* a pruning that drops a hit when its age reaches the window
AgeComboHits_Strict(ages) ==
  SelectSeq([k \in 1..Len(ages) |-> ages[k] + FIXED_DT], LAMBDA a : a < COMBO_WINDOW)

\* "Age and prune combo hits": every age grows by dt, ages beyond the
\* window are dropped
AgeComboHits(ages) ==
  SelectSeq([k \in 1..Len(ages) |-> ages[k] + FIXED_DT], LAMBDA a : a <= COMBO_WINDOW)

\* the hit test of checkPlayerHits for rival i (1-based)
InPlayerRange(c, p, rival) ==
  LET dz == wrappedDelta(rival.z, p.z, TotalLength)
      dx == rival.x - p.x
  IN  /\ Abs(dz) <= c.range.z
      /\ Abs(dx) <= c.range.x
      /\ ~(c.attackSide = "left" /\ dx > 0)
      /\ ~(c.attackSide = "right" /\ dx < 0)

\* checkPlayerHits without the test of _hitSet
SkipRival_NoHitSet(c, rival, i) == rival.isWipedOut

\* TRUE when checkPlayerHits skips rival i before the range test
SkipRival(c, rival, i) == i \in c.hitSet \/ rival.isWipedOut

\* a weapon that is never handed back
ConsumeWeaponUse_NoRevert(c) ==
  IF c.weapon.uses > 0 THEN [c EXCEPT !.weapon.uses = c.weapon.uses - 1] ELSE c

\* "Consume weapon use" at the end of the loop body of checkPlayerHits
ConsumeWeaponUse(c) ==
  IF c.weapon.uses > 0
    THEN IF c.weapon.uses - 1 <= 0
           THEN applyWeaponStats([c EXCEPT !.weapon = [type |-> "fist", uses |-> -1]],
                                 "fist")
           ELSE [c EXCEPT !.weapon.uses = c.weapon.uses - 1]
    ELSE c

\* body of the loop of checkPlayerHits for a rival that is hit; st is
\* [combat, rivals, hits]; crit is the outcome of Math.random() < CRITICAL_CHANCE
LandPlayerHit(st, i, crit) ==
  LET c      == st.combat
      ages   == Append(c.comboHits, 0)
      isCrit == crit \/ Len(ages) >= COMBO_THRESHOLD
      dmg    == IF isCrit THEN RoundDiv(c.damage * CRITICAL_MULTIPLIER, 10) ELSE c.damage
      kb     == IF c.attackSide = "left" THEN -RIVAL_KNOCKBACK_X ELSE RIVAL_KNOCKBACK_X
      rv     == st.rivals[i]
      rv1    == [rv EXCEPT !.x = Clamp(-((15 * XU) \div 10), rv.x + kb, (15 * XU) \div 10),
                           !.speed = (rv.speed * RIVAL_KNOCKBACK_SPEED) \div 10]
      c1     == [c EXCEPT !.hitSet = c.hitSet \cup {i},
                          !.comboHits = ages,
                          !.rivalStates[i].wasHitRecently = TRUE,
                          !.rivalStates[i].wasHitTimer = RIVAL_COUNTER_WINDOW,
                          !.rivalStates[i].wasHitTimerErr =
                             DoubleOf(RIVAL_COUNTER_WINDOW \div FIXED_DT)]
  IN  [combat |-> ConsumeWeaponUse(c1),
       rivals |-> [st.rivals EXCEPT ![i] = rv1],
       hits   |-> Append(st.hits, [targetIndex |-> i, type |-> c.attackType,
                                   damage |-> dmg, knockbackX |-> kb,
                                   isCritical |-> isCrit])]

\* checkPlayerHits from rival i on (rivals are numbered from 1; targetIndex
\* 0 stands for the program's -1, "the player was hit")
RECURSIVE checkPlayerHits(_, _, _, _)
checkPlayerHits(st, p, i, crit) ==
  IF i > Len(st.rivals) THEN st
  ELSE IF SkipRival(st.combat, st.rivals[i], i)
          \/ ~InPlayerRange(st.combat, p, st.rivals[i])
         THEN checkPlayerHits(st, p, i + 1, crit)
         ELSE checkPlayerHits(LandPlayerHit(st, i, crit), p, i + 1, crit)

\* a swing without a RECOVERY phase
PhaseOf_NoRecovery(t, e) ==
  IF DoubleLess(t, e, WIND_UP, WindUpErr) THEN "WINDUP" ELSE "ACTIVE"

\* attack phase for an attack timer t with rounding error e
PhaseOf(t, e) ==
  IF DoubleLess(t, e, WIND_UP, WindUpErr) THEN "WINDUP"
  ELSE IF DoubleLess(t, e, WIND_UP + ACTIVE_WINDOW, ActiveEndErr) THEN "ACTIVE"
  ELSE "RECOVERY"

\* a swing that also strikes during WINDUP
ChecksHits_Windup(phase) == phase \in {"WINDUP", "ACTIVE"}

\* TRUE for the phase in which updatePlayerAttack calls checkPlayerHits
ChecksHits(phase) == phase = "ACTIVE"

\* attackTimer >= attackDuration for an attack timer t with rounding error e
SwingOver(t, e, duration) == ~DoubleLess(t, e, duration, TotalAttackErr)

\* the attack type asked for by this frame's input (Enter = punch, Space = kick)
PressedAttack(inp) ==
  IF inp.enter THEN "punch" ELSE IF inp.space THEN "kick" ELSE "null"

updatePlayerAttack(st, p, inp) ==
  LET c0 == st.combat
      cd == IF c0.cooldownTimer > 0 THEN c0.cooldownTimer - FIXED_DT ELSE c0.cooldownTimer
      c  == [c0 EXCEPT !.cooldownTimer = cd]
  IN  IF c.isAttacking
        THEN LET t   == c.attackTimer + FIXED_DT
                 e   == DoubleRound(t \div FIXED_DT, c.attackTimerErr)
                 c1  == [c EXCEPT !.attackTimer = t, !.attackTimerErr = e,
                                  !.attackPhase = PhaseOf(t, e)]
                 st1 == IF ChecksHits(PhaseOf(t, e))
                          THEN checkPlayerHits([st EXCEPT !.combat = c1], p, 1, inp.crit)
                          ELSE [st EXCEPT !.combat = c1]
             IN  IF SwingOver(t, e, c.attackDuration)
                   THEN [st1 EXCEPT !.combat.isAttacking = FALSE,
                                    !.combat.attackType = "null",
                                    !.combat.attackTimer = 0,
                                    !.combat.attackTimerErr = 0,
                                    !.combat.attackPhase = "NONE",
                                    !.combat.hitSet = {}]
                   ELSE st1
        ELSE LET c1 == [c EXCEPT !.attackPhase = "NONE"]
             IN  IF c1.cooldownTimer > 0 \/ p.isWipedOut \/ PressedAttack(inp) = "null"
                   THEN [st EXCEPT !.combat = c1]
                   ELSE [st EXCEPT !.combat =
                           [c1 EXCEPT !.isAttacking = TRUE,
                                      !.attackType = PressedAttack(inp),
                                      !.attackSide = IF p.lean <= 0 THEN "left" ELSE "right",
                                      !.attackTimer = 0, !.attackTimerErr = 0,
                                      !.attackDuration = TOTAL_ATTACK,
                                      !.cooldownTimer = c1.cooldown,
                                      !.attackPhase = "WINDUP",
                                      !.hitSet = {}]]

PICKUP_RANGE_X == (3 * XU) \div 10

PICKUP_RANGE_Z == 100

\* updateWeaponPickups from pickup k on
RECURSIVE updateWeaponPickups(_, _, _)
updateWeaponPickups(c, p, k) ==
  IF k > Len(c.weaponPickups) THEN c
  ELSE LET pk == c.weaponPickups[k]
       IN  IF pk.collected
              \/ Abs(wrappedDelta(pk.z, p.z, TotalLength)) > PICKUP_RANGE_Z
              \/ Abs(pk.x - p.x) > PICKUP_RANGE_X
             THEN updateWeaponPickups(c, p, k + 1)
             ELSE updateWeaponPickups(
                    applyWeaponStats(
                      [c EXCEPT !.weaponPickups[k].collected = TRUE,
                                !.weapon = [type |-> pk.type,
                                            uses |-> WEAPON_STATS[pk.type].maxUses]],
                      pk.type),
                    p, k + 1)

\* "Decay wasHit timer" of updateRivalAttacks
DecayWasHit(rs) ==
  LET wt == rs.wasHitTimer - FIXED_DT
      we == DoubleRound(wt \div FIXED_DT, rs.wasHitTimerErr)
  IN  IF ~rs.wasHitRecently THEN rs
      ELSE IF DoubleLeq0(wt, we)
        THEN [rs EXCEPT !.wasHitRecently = FALSE, !.wasHitTimer = 0, !.wasHitTimerErr = 0]
      ELSE [rs EXCEPT !.wasHitTimer = wt, !.wasHitTimerErr = we]

\* a defensive rival that counters whether it was hit or not
CounterAllowed_Always(rs) == TRUE

\* "Defensive: only counter-attack after being hit"
CounterAllowed(rs) == rs.wasHitRecently

\* a strike that lands on a player lying wiped out as well
StrikeHits_Always(p, mid) == mid

\* "Deal damage once at mid-point of rival's swing": mid is TRUE on the call
\* in which the swing reaches its mid-point
StrikeHits(p, mid) == mid /\ ~p.isWipedOut

\* one iteration of the loop of updateRivalAttacks after the cooldown and
\* wasHit timers, which have left the rival's combat state rs; inp.attack is
\* the outcome of Math.random() <= RIVAL_ATTACK_CHANCE
RivalAttackStep(st, p, i, inp, rs) ==
  LET rv   == st.rivals[i]
      dz   == wrappedDelta(rv.z, p.z, TotalLength)
  IN  IF rs.telegraphing
        THEN LET tt  == rs.telegraphTimer - FIXED_DT
                 dir == IF p.x > rv.x THEN 1 ELSE -1
                 x1  == Clamp(-((15 * XU) \div 10),
                              rv.x + dir * Quot(XU * FIXED_DT, 2 * TU),
                              (15 * XU) \div 10)
                 rs1 == IF tt <= 0
                          THEN [rs EXCEPT !.telegraphTimer = tt, !.telegraphing = FALSE,
                                          !.isAttacking = TRUE, !.attackTimer = 0]
                          ELSE [rs EXCEPT !.telegraphTimer = tt]
             IN  [st EXCEPT !.combat.rivalStates[i] = rs1, !.rivals[i].x = x1]
      ELSE IF rs.isAttacking
        THEN LET at   == rs.attackTimer + FIXED_DT
                 mid  == 2 * at >= RIVAL_ATTACK_DURATION
                         /\ 2 * (at - FIXED_DT) < RIVAL_ATTACK_DURATION
                 rs1  == IF at >= RIVAL_ATTACK_DURATION
                           THEN [rs EXCEPT !.isAttacking = FALSE, !.attackTimer = 0]
                           ELSE [rs EXCEPT !.attackTimer = at]
                 kb   == IF rv.x < p.x THEN RIVAL_KNOCKBACK_X ELSE -RIVAL_KNOCKBACK_X
             IN  [st EXCEPT !.combat.rivalStates[i] = rs1,
                            !.hits = IF StrikeHits(p, mid)
                                       THEN Append(st.hits,
                                              [targetIndex |-> 0, type |-> "punch",
                                               damage |-> WEAPON_STATS.fist.damage,
                                               knockbackX |-> kb, isCritical |-> FALSE])
                                       ELSE st.hits]
      ELSE IF rv.isWipedOut \/ p.isWipedOut \/ rs.cooldownTimer > 0
              \/ Abs(dz) > RIVAL_ATTACK_RANGE_Z
              \/ Abs(rv.x - p.x) > RIVAL_ATTACK_RANGE_X
        THEN [st EXCEPT !.combat.rivalStates[i] = rs]
      ELSE IF rv.personality = "aggressive" /\ inp.attack
        THEN [st EXCEPT !.combat.rivalStates[i] =
                [rs EXCEPT !.telegraphing = TRUE,
                           !.telegraphTimer = RIVAL_TELEGRAPH_DURATION,
                           !.cooldownTimer = RIVAL_ATTACK_COOLDOWN]]
      ELSE IF rv.personality = "defensive" /\ CounterAllowed(rs)
        THEN [st EXCEPT !.combat.rivalStates[i] =
                [rs EXCEPT !.telegraphing = TRUE,
                           !.telegraphTimer = RIVAL_TELEGRAPH_DURATION \div 2,
                           !.cooldownTimer = RIVAL_ATTACK_COOLDOWN,
                           !.wasHitRecently = FALSE, !.wasHitTimer = 0,
                           !.wasHitTimerErr = 0]]
      ELSE [st EXCEPT !.combat.rivalStates[i] = rs]

\* one iteration of the loop of updateRivalAttacks, for rival i
updateRivalAttack(st, p, i, inp) ==
  RivalAttackStep(st, p, i, inp,
                  DecayWasHit([st.combat.rivalStates[i] EXCEPT
                                 !.cooldownTimer = IF @ > 0 THEN @ - FIXED_DT ELSE @]))

RECURSIVE updateRivalAttacks(_, _, _, _)
updateRivalAttacks(st, p, i, inp) ==
  IF i > Len(st.rivals) THEN st
  ELSE updateRivalAttacks(updateRivalAttack(st, p, i, inp), p, i + 1, inp)

\* updateCombat: the combat state and rivals after the call and the
\* returned hits
updateCombat(c, p, rv, inp) ==
  LET c1  == [c EXCEPT !.comboHits = AgeComboHits(c.comboHits)]
      c2  == updateWeaponPickups(c1, p, 1)
      st1 == updatePlayerAttack([combat |-> c2, rivals |-> rv, hits |-> << >>], p, inp)
  IN  updateRivalAttacks(st1, p, 1, inp)

(***************************************************************************)
(* police.ts                                                               *)
(***************************************************************************)
COMBAT_THRESHOLD == 5

COP_HEALTH == 150

COP_WIPEOUT_DURATION == 5 * TU

COP_RESPAWN_DELAY == 30 * TU

BUST_RANGE_X == (2 * XU) \div 10

BUST_RANGE_Z == 150

BUST_TIME == 3 * TU

WARNING_DURATION == 2 * TU

COP_SPAWN_BEHIND == 3000

COP_KNOCKBACK_Z == 500

COP_NEGATIVE_FIX == 999999

COP_CENTRIFUGAL_FORCE == (3 * XU) \div 10

\* 0.3 * speedRatio * curve * dt of updatePolice
CopCentrifugal(r, cv) ==
  Quot(COP_CENTRIFUGAL_FORCE * r * cv * FIXED_DT, 1000 * XU * TU)

createCop ==
  [ x |-> 0, z |-> 0, speed |-> 0, health |-> COP_HEALTH, maxHealth |-> COP_HEALTH,
    isWipedOut |-> FALSE, wipeoutTimer |-> 0, active |-> FALSE ]

createPoliceState ==
  [ combatCount |-> 0, cop |-> createCop, respawnTimer |-> 0, busted |-> FALSE,
    bustTimer |-> 0, warningTimer |-> 0, sirenSoundActive |-> FALSE ]

incrementCombatCount(pol) == [pol EXCEPT !.combatCount = pol.combatCount + 1]

\* a spawn at the player's own speed
spawnCop_FullSpeed(cop, p) ==
  [cop EXCEPT !.active = TRUE, !.isWipedOut = FALSE, !.health = COP_HEALTH,
              !.speed = p.speed, !.x = p.x,
              !.z = JsMod(p.z - COP_SPAWN_BEHIND + TotalLength, TotalLength)]

spawnCop(cop, p) ==
  [cop EXCEPT !.active = TRUE, !.isWipedOut = FALSE, !.health = COP_HEALTH,
              !.speed = (p.speed * 8) \div 10, !.x = p.x,
              !.z = JsMod(p.z - COP_SPAWN_BEHIND + TotalLength, TotalLength)]

\* the police state after the spawn logic of updatePolice
SpawnLogic(pol, p) ==
  IF ~pol.cop.active /\ pol.combatCount >= COMBAT_THRESHOLD
    THEN IF pol.cop.isWipedOut
           THEN LET rt == pol.respawnTimer - FIXED_DT
                IN  IF rt <= 0
                      THEN [pol EXCEPT !.respawnTimer = rt, !.cop = spawnCop(pol.cop, p),
                                       !.warningTimer = WARNING_DURATION,
                                       !.sirenSoundActive = TRUE]
                      ELSE [pol EXCEPT !.respawnTimer = rt]
           ELSE [pol EXCEPT !.cop = spawnCop(pol.cop, p),
                            !.warningTimer = WARNING_DURATION,
                            !.sirenSoundActive = TRUE]
    ELSE pol

\* the wipeout-recovery branch of updatePolice (cop active and wiped out)
CopWipeoutStep(pol) ==
  LET cop == pol.cop
      wt  == cop.wipeoutTimer - FIXED_DT
      sp  == Max(0, cop.speed - (200 * SU * FIXED_DT) \div TU)
      c1  == [cop EXCEPT !.wipeoutTimer = wt, !.speed = sp,
                         !.z = JsMod(cop.z + Advance(sp), TotalLength)]
  IN  IF wt <= 0
        THEN [pol EXCEPT !.cop = [c1 EXCEPT !.active = FALSE, !.isWipedOut = FALSE,
                                            !.health = COP_HEALTH],
                         !.respawnTimer = COP_RESPAWN_DELAY,
                         !.sirenSoundActive = FALSE]
        ELSE [pol EXCEPT !.cop = c1]

\* TRUE when the cop is within bust range of a player that is not wiped out
InBustRange(cop, p) ==
  /\ Abs(wrappedDelta(cop.z, p.z, TotalLength)) < BUST_RANGE_Z
  /\ Abs(cop.x - p.x) < BUST_RANGE_X
  /\ ~p.isWipedOut

\* a bust test that lets the timer sit on BUST_TIME for a tick
BustReached_Late(t) == t > BUST_TIME

\* police.bustTimer >= BUST_TIME
BustReached(t) == t >= BUST_TIME

\* the chase AI and the bust check of updatePolice
ChaseStep(pol, p) ==
  LET cop == pol.cop
      tgt == (p.maxSpeed * 11) \div 10
      sp  == Max(0, cop.speed + Quot((tgt - cop.speed) * 2 * FIXED_DT, TU))
      x1  == Clamp(-XU, cop.x + Quot((p.x - cop.x) * 25 * FIXED_DT, 10 * TU), XU)
      cv  == RoadCurve(SegIdx(cop.z))
      x2  == x1 - CopCentrifugal((sp * 1000) \div (300 * SU), cv)
      c1  == [cop EXCEPT !.speed = sp, !.x = x2,
                         !.z = JsMod(cop.z + Advance(sp), TotalLength)]
  IN  IF InBustRange(c1, p)
        THEN [pol EXCEPT !.cop = c1, !.bustTimer = pol.bustTimer + FIXED_DT,
                         !.busted = BustReached(pol.bustTimer + FIXED_DT)]
        ELSE [pol EXCEPT !.cop = c1,
                         !.bustTimer = Max(0, pol.bustTimer - FIXED_DT \div 2)]

updatePolice(pol, p) ==
  IF pol.busted THEN pol
  ELSE LET p0 == [pol EXCEPT !.warningTimer = Max(0, pol.warningTimer - FIXED_DT)]
           p1 == SpawnLogic(p0, p)
       IN  IF ~p1.cop.active THEN p1
           ELSE IF p1.cop.isWipedOut THEN CopWipeoutStep(p1)
           ELSE ChaseStep(p1, p)

hitCop(pol, damage) ==
  LET cop == pol.cop
      z1  == cop.z - COP_KNOCKBACK_Z
      c1  == [cop EXCEPT !.health = cop.health - damage,
                         !.speed = (cop.speed * 7) \div 10,
                         !.z = IF z1 < 0 THEN z1 + COP_NEGATIVE_FIX ELSE z1]
  IN  IF ~cop.active \/ cop.isWipedOut THEN pol
      ELSE IF c1.health <= 0
             THEN [pol EXCEPT !.cop = [c1 EXCEPT !.isWipedOut = TRUE,
                                                 !.wipeoutTimer = COP_WIPEOUT_DURATION,
                                                 !.health = 0]]
             ELSE [pol EXCEPT !.cop = c1]

checkCopHit(pol, p, side, rangeX, rangeZ) ==
  LET cop == pol.cop
      dz  == wrappedDelta(cop.z, p.z, TotalLength)
      dx  == cop.x - p.x
  IN  /\ cop.active /\ ~cop.isWipedOut
      /\ Abs(dz) <= rangeZ
      /\ Abs(dx) <= rangeX
      /\ ~(side = "left" /\ dx > 0)
      /\ ~(side = "right" /\ dx < 0)

resetPolice(pol) ==
  [pol EXCEPT !.combatCount = 0, !.busted = FALSE, !.bustTimer = 0,
              !.warningTimer = 0, !.respawnTimer = 0, !.sirenSoundActive = FALSE,
              !.cop = [pol.cop EXCEPT !.active = FALSE, !.isWipedOut = FALSE,
                                      !.health = COP_HEALTH, !.speed = 0,
                                      !.wipeoutTimer = 0, !.x = 0, !.z = 0]]

(***************************************************************************)
(* traffic.ts                                                              *)
(***************************************************************************)
TRAFFIC_COLLISION_X == (22 * XU) \div 100

TRAFFIC_COLLISION_Z == 180

\* first z at which createTraffic places a vehicle: 600 * SEGMENT_LENGTH
TRAFFIC_MIN_Z == 600 * SEGMENT_LENGTH

\* number of traffic vehicles (index.ts creates 20)
NumTraffic == 1

VEHICLE_SPEED_MIN == 80

VEHICLE_SPEED_MAX == 150

LANE_POSITIONS == <<-((45 * XU) \div 100), 0, (45 * XU) \div 100>>

\* createTraffic(count, roadLength); every Math.random() of the call is
\* rnd / 1000
createTraffic(count, rnd) ==
  LET spacing == (TotalLength - TRAFFIC_MIN_Z) \div count
  IN  [k \in 1..count |->
         [ x |-> LANE_POSITIONS[((rnd * 3) \div 1000) + 1] + Quot((rnd - 500) * 80, 1000),
           z |-> TRAFFIC_MIN_Z + (k - 1) * spacing + (rnd * spacing) \div 2000,
           speed |-> VEHICLE_SPEED_MIN
                     + (rnd * (VEHICLE_SPEED_MAX - VEHICLE_SPEED_MIN)) \div 1000 ]]

\* vehicle speed is in world units per second (no SEGMENT_LENGTH factor)
updateTraffic(vs) ==
  [k \in 1..Len(vs) |->
     LET z1 == vs[k].z + Quot(vs[k].speed * FIXED_DT, TU)
     IN  [vs[k] EXCEPT !.z = IF z1 >= TotalLength THEN z1 - TotalLength ELSE z1]]

checkVehicleCollision(x, z, vs) ==
  \E k \in 1..Len(vs) :
     Abs(vs[k].z - z) < TRAFFIC_COLLISION_Z /\ Abs(vs[k].x - x) < TRAFFIC_COLLISION_X

(***************************************************************************)
(* progression.ts                                                          *)
(***************************************************************************)
NUM_TRACKS == 4

createProgression ==
  [ cash |-> 0, currentTrackIndex |-> TrackId, unlockedTracks |-> {0},
    raceHistory |-> << >> ]

calculateEarnings(position, trackIndex) ==
  LET multiplier == trackIndex + 1
  IN  IF position = 1 THEN 2000 * multiplier
      ELSE IF position = 2 THEN 1200 * multiplier
      ELSE IF position = 3 THEN 600 * multiplier
      ELSE IF position >= 4 /\ position <= 7 THEN 200 * multiplier
      ELSE 0

canAdvanceToNextTrack(pr) ==
  LET nextTrack == pr.currentTrackIndex + 1
  IN  /\ nextTrack < NUM_TRACKS
      /\ nextTrack \notin pr.unlockedTracks
      /\ \E k \in 1..Len(pr.raceHistory) :
            pr.raceHistory[k].track = pr.currentTrackIndex
            /\ pr.raceHistory[k].position <= 3

advanceTrack(pr) ==
  IF canAdvanceToNextTrack(pr)
    THEN [pr EXCEPT !.unlockedTracks = pr.unlockedTracks \cup {pr.currentTrackIndex + 1}]
    ELSE pr

(***************************************************************************)
(* game.ts                                                                 *)
(***************************************************************************)
RACE_SEGMENTS == 5000

COUNTDOWN_START == 4 * TU

HIT_FREEZE == (5 * TU) \div 100

createRaceData ==
  [ state |-> "TITLE", countdown |-> COUNTDOWN_START,
    raceDistance |-> RACE_SEGMENTS * SEGMENT_LENGTH,
    playerFinished |-> FALSE, finishPosition |-> 0, raceTimer |-> 0,
    results |-> << >>, nextPosition |-> 1,
    progression |-> createProgression, earnings |-> 0,
    trackSelectDone |-> FALSE, hitFreezeTimer |-> 0 ]

\* resetRace: the parts of the world it rewrites
resetRace(w) ==
  [w EXCEPT
     !.race = [w.race EXCEPT !.state = "TITLE", !.countdown = COUNTDOWN_START,
                             !.playerFinished = FALSE, !.finishPosition = 0,
                             !.raceTimer = 0, !.results = << >>, !.nextPosition = 1],
     !.police = resetPolice(w.police),
     !.player = [w.player EXCEPT !.x = 0, !.z = 0, !.speed = 0,
                                 !.health = w.player.maxHealth,
                                 !.isWipedOut = FALSE, !.wipeoutTimer = 0, !.lean = 0,
                                 !.wipeoutTimerErr = 0, !.wipeoutPhaseTimerErr = 0,
                                 !.wipeoutPhase = "none", !.wipeoutPhaseTimer = 0,
                                 !.bikeSlideSpeed = 0, !.offroad = FALSE],
     !.rivals = [i \in 1..Len(w.rivals) |->
                   [w.rivals[i] EXCEPT
                      !.x = -((6 * XU) \div 10)
                            + (12 * XU * (i - 1)) \div (10 * Max(Len(w.rivals) - 1, 1)),
                      !.z = 300 + (i - 1) * 350,
                      !.speed = 0, !.health = w.rivals[i].maxHealth,
                      !.isWipedOut = FALSE, !.wipeoutTimer = 0]]]

\* updatePlayer, then race.raceTimer has already advanced
StagePlayer(w, inp) == [w EXCEPT !.player = updatePlayer(w.player, inp, w.rivals)]

\* updateRivals and the player's share of a rival collision
PlayerContact(w, ur) ==
  [w EXCEPT !.rivals = ur.rivals,
            !.player = IF ur.playerHit /\ ~w.player.isWipedOut
                         THEN [w.player EXCEPT !.speed = (w.player.speed * 94) \div 100,
                                               !.health = w.player.health - 3]
                         ELSE w.player]

StageRivals(w, inp) == PlayerContact(w, updateRivals(w.rivals, w.player, inp))

\* hits on the player that the police do not count
ApplyHit_RivalsUncounted(w, hit) ==
  IF hit.targetIndex >= 1
    THEN LET rv == w.rivals[hit.targetIndex]
             h  == rv.health - hit.damage
         IN  [w EXCEPT !.rivals[hit.targetIndex] =
                          [rv EXCEPT !.health = h,
                                     !.isWipedOut = rv.isWipedOut \/ h <= 0,
                                     !.wipeoutTimer = IF h <= 0 THEN 2 * TU
                                                                ELSE rv.wipeoutTimer],
                       !.race.hitFreezeTimer = HIT_FREEZE,
                       !.police = incrementCombatCount(w.police)]
    ELSE [w EXCEPT !.player.health = w.player.health - hit.damage]

\* the effect of one returned hit on the world (game.ts 308-332)
ApplyHit(w, hit) ==
  IF hit.targetIndex >= 1
    THEN LET rv == w.rivals[hit.targetIndex]
             h  == rv.health - hit.damage
         IN  [w EXCEPT !.rivals[hit.targetIndex] =
                          [rv EXCEPT !.health = h,
                                     !.isWipedOut = rv.isWipedOut \/ h <= 0,
                                     !.wipeoutTimer = IF h <= 0 THEN 2 * TU
                                                                ELSE rv.wipeoutTimer],
                       !.race.hitFreezeTimer = HIT_FREEZE,
                       !.police = incrementCombatCount(w.police)]
    ELSE [w EXCEPT !.player.health = w.player.health - hit.damage,
                   !.police = incrementCombatCount(w.police)]

RECURSIVE ApplyHits(_, _, _)
ApplyHits(w, hs, k) ==
  IF k > Len(hs) THEN w ELSE ApplyHits(ApplyHit(w, hs[k]), hs, k + 1)

\* the loop over the hits returned by updateCombat
CombatHits(w, uc) ==
  ApplyHits([w EXCEPT !.combat = uc.combat, !.rivals = uc.rivals, !.hits = uc.hits],
            uc.hits, 1)

\* "Check if player attack hits the cop"
CopAttack(w1) ==
  LET c == w1.combat
  IN  IF c.isAttacking /\ c.attackPhase = "ACTIVE" /\ w1.police.cop.active
         /\ checkCopHit(w1.police, w1.player, c.attackSide, c.range.x, c.range.z)
        THEN [w1 EXCEPT !.police = hitCop(w1.police, c.damage)]
        ELSE w1

\* updateCombat, the loop over its hits, and the attack on the cop
StageCombat(w, inp) ==
  CopAttack(CombatHits(w, updateCombat(w.combat, w.player, w.rivals, inp)))

StagePolice(w, inp) == [w EXCEPT !.police = updatePolice(w.police, w.player)]

\* updateTraffic and the two traffic collision checks
StageTraffic(w, inp) ==
  LET vs == updateTraffic(w.traffic)
      p  == w.player
  IN  [w EXCEPT
         !.traffic = vs,
         !.player = IF ~p.isWipedOut /\ checkVehicleCollision(p.x, p.z, vs)
                      THEN [StartWipeout(p) EXCEPT !.speed = (p.speed * 2) \div 10]
                      ELSE p,
         !.rivals = [i \in 1..Len(w.rivals) |->
                       LET r == w.rivals[i]
                       IN  IF ~r.isWipedOut /\ checkVehicleCollision(r.x, r.z, vs)
                             THEN [r EXCEPT !.health = 0, !.isWipedOut = TRUE,
                                            !.wipeoutTimer = 2 * TU,
                                            !.speed = (r.speed * 2) \div 10]
                             ELSE r]]

\* TRUE when results holds an entry with this name
HasResult(results, name) == \E k \in 1..Len(results) : results[k].name = name

\* "Check rivals crossing finish", from rival i on
RECURSIVE RivalsCrossing(_, _, _)
RivalsCrossing(rc, rv, i) ==
  IF i > Len(rv) THEN rc
  ELSE IF rv[i].z >= rc.raceDistance /\ ~HasResult(rc.results, rv[i].name)
         THEN RivalsCrossing(
                [rc EXCEPT !.results = Append(rc.results,
                                         [name |-> rv[i].name, position |-> rc.nextPosition,
                                          time |-> rc.raceTimer]),
                           !.nextPosition = rc.nextPosition + 1],
                rv, i + 1)
         ELSE RivalsCrossing(rc, rv, i + 1)

\* the player's result pushed after nextPosition was advanced
PlayerCrossing_PostIncrement(rc, p) ==
  IF ~rc.playerFinished /\ p.z >= rc.raceDistance
    THEN [rc EXCEPT !.playerFinished = TRUE, !.finishPosition = rc.nextPosition,
                    !.results = Append(rc.results,
                                  [name |-> "YOU", position |-> rc.nextPosition + 1,
                                   time |-> rc.raceTimer]),
                    !.nextPosition = rc.nextPosition + 1,
                    !.state = "FINISHED"]
    ELSE rc

\* "Check player crossing finish"
PlayerCrossing(rc, p) ==
  IF ~rc.playerFinished /\ p.z >= rc.raceDistance
    THEN [rc EXCEPT !.playerFinished = TRUE, !.finishPosition = rc.nextPosition,
                    !.results = Append(rc.results,
                                  [name |-> "YOU", position |-> rc.nextPosition,
                                   time |-> rc.raceTimer]),
                    !.nextPosition = rc.nextPosition + 1,
                    !.state = "FINISHED"]
    ELSE rc

\* "All rivals finished -> player loses"
AllRivalsFinished(rc, rv) ==
  IF ~rc.playerFinished /\ Len(rc.results) >= Len(rv)
    THEN [rc EXCEPT !.playerFinished = TRUE, !.finishPosition = rc.nextPosition,
                    !.results = Append(rc.results,
                                  [name |-> "YOU", position |-> rc.nextPosition,
                                   time |-> rc.raceTimer]),
                    !.state = "FINISHED"]
    ELSE rc

\* the finish-order bookkeeping of a RACING tick (game.ts 396-434)
FinishBookkeeping(rc, p, rv) ==
  AllRivalsFinished(PlayerCrossing(RivalsCrossing(rc, rv, 1), p), rv)

StageFinish(w, inp) ==
  [w EXCEPT !.race = FinishBookkeeping(w.race, w.player, w.rivals)]

\* the police called before the combat system
RacingOrder_PoliceFirst(w, inp) ==
  StageCombat(StagePolice(StageRivals(StagePlayer(w, inp), inp), inp), inp)

\* the subsystems of a simulated RACING tick up to the police, in call order
RacingOrder(w, inp) ==
  StagePolice(StageCombat(StageRivals(StagePlayer(w, inp), inp), inp), inp)

\* after updatePolice: the BUSTED exit, else traffic and the finish checks
AfterPolice(w1, inp) ==
  IF w1.police.busted
    THEN [w1 EXCEPT !.race.state = "BUSTED",
                    !.race.playerFinished = TRUE,
                    !.race.finishPosition = Len(w1.rivals) + 1]
    ELSE StageFinish(StageTraffic(w1, inp), inp)

\* a frozen tick that lets the race clock run
HitFreezeTick_Clock(w) ==
  [w EXCEPT !.race.hitFreezeTimer = w.race.hitFreezeTimer - FIXED_DT,
            !.race.raceTimer = w.race.raceTimer + FIXED_DT]

\* "Hit freeze - pause all game logic for impact effect"
HitFreezeTick(w) ==
  [w EXCEPT !.race.hitFreezeTimer = w.race.hitFreezeTimer - FIXED_DT]

\* case 'RACING' of updateRace
RacingTick(w, inp) ==
  IF w.race.hitFreezeTimer > 0
    THEN HitFreezeTick(w)
    ELSE AfterPolice(RacingOrder([w EXCEPT !.race.raceTimer = w.race.raceTimer + FIXED_DT],
                                 inp),
                     inp)

\* justPressed('Space') || justPressed('Enter')
Confirm(inp) == inp.space \/ inp.enter

\* case 'COUNTDOWN' of updateRace; inp.wobble is (Math.random() - 0.5) * 0.02
CountdownTick(w, inp) ==
  LET cd == w.race.countdown - FIXED_DT
  IN  [w EXCEPT
         !.rivals = [i \in 1..Len(w.rivals) |->
                       [w.rivals[i] EXCEPT !.x = Clamp(-XU, w.rivals[i].x + inp.wobble, XU)]],
         !.race = IF cd <= 0
                    THEN [w.race EXCEPT !.countdown = cd, !.state = "RACING",
                                        !.raceTimer = 0]
                    ELSE [w.race EXCEPT !.countdown = cd]]

\* "Calculate earnings once" of case 'FINISHED'
CreditEarnings(rc) ==
  IF rc.earnings = 0 /\ rc.finishPosition > 0
    THEN LET e  == calculateEarnings(rc.finishPosition, rc.progression.currentTrackIndex)
             pr == [rc.progression EXCEPT
                      !.cash = rc.progression.cash + e,
                      !.raceHistory = Append(rc.progression.raceHistory,
                                        [track |-> rc.progression.currentTrackIndex,
                                         position |-> rc.finishPosition,
                                         earnings |-> e])]
         IN  [rc EXCEPT !.earnings = e, !.progression = advanceTrack(pr)]
    ELSE rc

\* the speed taken off per tick while coasting at this rate
CoastStep(rate) == (rate * SU * FIXED_DT) \div TU

\* a player that slows down and stands still at once
Coast_Halt(p, rate) ==
  [p EXCEPT !.speed = Max(0, p.speed - CoastStep(rate))]

\* the coasting of cases 'FINISHED' (rate 200) and 'BUSTED' (rate 300)
Coast(p, rate) ==
  LET sp == Max(0, p.speed - (rate * SU * FIXED_DT) \div TU)
  IN  [p EXCEPT !.speed = sp, !.z = p.z + Advance(sp)]

FinishedTick(w, inp) ==
  LET rc == CreditEarnings(w.race)
  IN  [w EXCEPT !.player = Coast(w.player, 200),
                !.race = IF Confirm(inp)
                           THEN [rc EXCEPT !.trackSelectDone = TRUE, !.earnings = 0]
                           ELSE rc]

BustedTick(w, inp) ==
  IF Confirm(inp)
    THEN [w EXCEPT !.player = Coast(w.player, 300),
                   !.police = resetPolice(w.police),
                   !.race.trackSelectDone = TRUE, !.race.earnings = 0]
    ELSE [w EXCEPT !.player = Coast(w.player, 300)]

\* cases 'TITLE', 'TRACK_SELECT' and 'BIKE_SHOP': the menu cursor (it rests
\* on the current track, which is unlocked), the purchases of the shop and
\* the camera are not modelled
MenuTick(w, inp) ==
  CASE w.race.state = "TITLE" ->
         IF Confirm(inp) THEN [w EXCEPT !.race.trackSelectDone = TRUE] ELSE w
    [] w.race.state = "TRACK_SELECT" ->
         [w EXCEPT !.race.trackSelectDone = @ \/ inp.space,
                   !.race.state = IF inp.keyB THEN "BIKE_SHOP" ELSE @]
    [] w.race.state = "BIKE_SHOP" ->
         [w EXCEPT !.race.state = IF inp.escape \/ inp.keyB THEN "TRACK_SELECT" ELSE @]
    [] OTHER -> w

updateRace(w, inp) ==
  CASE w.race.state = "RACING"    -> RacingTick(w, inp)
    [] w.race.state = "COUNTDOWN" -> CountdownTick(w, inp)
    [] w.race.state = "FINISHED"  -> FinishedTick(w, inp)
    [] w.race.state = "BUSTED"    -> BustedTick(w, inp)
    [] OTHER                      -> MenuTick(w, inp)

(***************************************************************************)
(* index.ts                                                                *)
(***************************************************************************)
rebuildTrack(w, inp) ==
  LET w1 == [w EXCEPT !.rivals = createRivals(NumRivals),
                      !.combat = createCombatState(NumRivals),
                      !.traffic = createTraffic(NumTraffic, inp.rndTarget),
                      !.race.raceDistance = TotalLength,
                      !.player.health = w.player.maxHealth]
      w2 == resetRace(w1)
  IN  [w2 EXCEPT !.race.state = "COUNTDOWN", !.race.countdown = COUNTDOWN_START,
                 !.player.z = 0, !.player.x = 0, !.player.speed = 0,
                 !.rivals = [i \in 1..Len(w2.rivals) |->
                               [w2.rivals[i] EXCEPT !.z = 200 + (i - 1) * 300,
                                                    !.speed = 0]]]

\* the update callback of mount()
update(w, inp) ==
  IF w.race.trackSelectDone
    THEN rebuildTrack([w EXCEPT !.race.trackSelectDone = FALSE], inp)
    ELSE updateRace([w EXCEPT !.hits = << >>], inp)

(***************************************************************************)
(* The inputs of one frame: the keys read through InputManager and the     *)
(* outcomes of the Math.random() / Math.sin() terms of the tick.           *)
(***************************************************************************)
\* throttle held, no key pressed, every random draw at its mean
Calm ==
  [ accel |-> TRUE, brake |-> FALSE, left |-> FALSE, right |-> FALSE,
    enter |-> FALSE, space |-> FALSE,
    jitter |-> 0, crit |-> FALSE, attack |-> FALSE, noise |-> 0,
    rndTarget |-> 500, rndInterval |-> 500, crash |-> FALSE, wobble |-> 0,
    keyB |-> FALSE, escape |-> FALSE ]

\* Enter: a punch while racing, "confirm" on the title and result screens
Punch == [Calm EXCEPT !.enter = TRUE]

\* Space with a lucky critical roll
KickCrit == [Calm EXCEPT !.space = TRUE, !.crit = TRUE]

\* the rivals' attack roll succeeds and their speed oscillation is at its top
RivalAttack == [Calm EXCEPT !.attack = TRUE, !.noise = 100, !.rndInterval = 0]

\* brakes and left steering held, the other draws off their mean
BrakeLeft ==
  [Calm EXCEPT !.accel = FALSE, !.brake = TRUE, !.left = TRUE, !.crash = TRUE,
               !.jitter = -5, !.noise = -100, !.rndTarget = 900]

WobbleLeft == [Calm EXCEPT !.wobble = -10]

WobbleRight == [Calm EXCEPT !.wobble = 10]

\* the off-road draw (Math.random() - 0.5) * OFFROAD_RUMBLE_AMP * 0.5 is off
\* its mean
Rumble == [Calm EXCEPT !.jitter = 4]

\* B: the bike shop from the track selection and back
KeyB == [Calm EXCEPT !.keyB = TRUE]

\* Escape: back from the bike shop
Escape == [Calm EXCEPT !.escape = TRUE]

\* the inputs explored for a frame in world w; the countdown wobble is off
\* its mean on whole seconds only, the off-road draw off the road only, the
\* menu keys on the menu screens only
Inputs(w) ==
  CASE w.race.state = "RACING" ->
         {Calm, Punch, KickCrit, RivalAttack, BrakeLeft}
           \cup (IF Abs(w.player.x) > XU THEN {Rumble} ELSE {})
    [] w.race.state = "COUNTDOWN" ->
         IF w.race.countdown % TU = 0 THEN {Calm, WobbleLeft, WobbleRight} ELSE {Calm}
    [] w.race.state \in {"TITLE", "TRACK_SELECT", "BIKE_SHOP"} ->
         {Calm, Punch, KickCrit, KeyB, Escape}
    [] OTHER -> {Calm, Punch}

\* the world held by the variables
World ==
  [ race |-> race, player |-> player, rivals |-> rivals, combat |-> combat,
    police |-> police, traffic |-> traffic, hits |-> hits ]

\* TRUE when a frame in this world runs the subsystems of a RACING tick
Simulates(w) ==
  ~w.race.trackSelectDone /\ w.race.state = "RACING" /\ w.race.hitFreezeTimer <= 0

\* number of hits on rival i among the hits returned by updateCombat
HitsOn(hs, i) == Cardinality({k \in 1..Len(hs) : hs[k].targetIndex = i})

\* ticks after which a player coasting from full speed stands still
CoastTicks == (BIKE_MAX_SPEED \div CoastStep(200)) + 1

\* the player's hits among the hits of a frame
PlayerHits(hs) == Cardinality({k \in 1..Len(hs) : hs[k].targetIndex >= 1})

\* the type of the pickup collected between combat states c and c1
PickedUp(c, c1) ==
  IF \E k \in 1..Len(c1.weaponPickups) :
        c1.weaponPickups[k].collected
        /\ (k > Len(c.weaponPickups) \/ ~c.weaponPickups[k].collected)
    THEN c1.weaponPickups[CHOOSE k \in 1..Len(c1.weaponPickups) :
                            c1.weaponPickups[k].collected
                            /\ (k > Len(c.weaponPickups)
                                \/ ~c.weaponPickups[k].collected)].type
    ELSE "none"

\* bookkeeping of the explored behaviour after a frame from world w to w1
RunAfter(w, w1, inp) ==
  LET racing  == ~w.race.trackSelectDone /\ w.race.state = "RACING"
      sim     == Simulates(w)
      started == sim /\ ~w.combat.isAttacking /\ w1.combat.isAttacking
  IN  [ ticks  |-> IF w.race.trackSelectDone THEN 0
                   ELSE IF racing THEN run.ticks + 1 ELSE run.ticks,
        events |-> IF ~w.race.trackSelectDone /\ w.race.state \in {"RACING", "COUNTDOWN"}
                      /\ inp # Calm
                     THEN run.events + 1 ELSE run.events,
        races  |-> IF w.race.trackSelectDone THEN run.races + 1 ELSE run.races,
        simulated |-> sim,
        \* calls of updateWipeout since the player's wipeout began
        wipedTicks |-> IF w.race.trackSelectDone THEN 0
                       ELSE IF sim /\ w.player.isWipedOut THEN run.wipedTicks + 1
                       ELSE IF w1.player.isWipedOut THEN 0
                       ELSE run.wipedTicks,
        \* the player recovered from a wipeout in this frame
        recovered |-> sim /\ w.player.isWipedOut /\ ~w1.player.isWipedOut,
        \* the weapon last picked up and the player's landed hits since
        picked |-> IF w.race.trackSelectDone THEN "none"
                   ELSE IF PickedUp(w.combat, w1.combat) # "none"
                     THEN PickedUp(w.combat, w1.combat)
                   ELSE run.picked,
        sincePickup |-> IF w.race.trackSelectDone THEN 0
                        ELSE IF PickedUp(w.combat, w1.combat) # "none"
                          THEN PlayerHits(w1.hits)
                        ELSE IF sim THEN run.sincePickup + PlayerHits(w1.hits)
                        ELSE run.sincePickup,
        \* the police combat counter before the frame
        countBefore |-> w.police.combatCount,
        \* simulated ticks since the player's last hit on each rival (-1: none
        \* in this race) and the telegraphs the rival has started since
        sinceHit |-> [i \in 1..NumRivals |->
                        IF w.race.trackSelectDone THEN -1
                        ELSE IF HitsOn(w1.hits, i) > 0 THEN 0
                        ELSE IF sim /\ run.sinceHit[i] >= 0
                          THEN Min(run.sinceHit[i] + 1,
                                   (RIVAL_COUNTER_WINDOW \div FIXED_DT) + 1)
                        ELSE run.sinceHit[i]],
        counters |-> [i \in 1..NumRivals |->
                        IF w.race.trackSelectDone THEN 0
                        ELSE (IF HitsOn(w1.hits, i) > 0 THEN 0 ELSE run.counters[i])
                             + (IF ~w.combat.rivalStates[i].telegraphing
                                   /\ w1.combat.rivalStates[i].telegraphing
                                  THEN 1 ELSE 0)],
        \* simulated ticks since each landed hit of the player, oldest first
        hitAges |-> IF w.race.trackSelectDone THEN << >>
                    ELSE (IF sim
                            THEN SelectSeq([k \in 1..Len(run.hitAges) |-> run.hitAges[k] + 1],
                                           LAMBDA a : a <= (COMBO_WINDOW \div FIXED_DT) + 1)
                            ELSE run.hitAges)
                         \o [k \in 1..PlayerHits(w1.hits) |-> 0],
        loop |-> run.loop,
        \* the race states the behaviour has been in
        visited |-> run.visited \cup {w1.race.state},
        \* the selector last handed to generateRoad and the road it returned
        selector |-> IF w.race.trackSelectDone
                       THEN w.race.progression.currentTrackIndex ELSE run.selector,
        road |-> IF w.race.trackSelectDone
                   THEN generateRoad(w.race.progression.currentTrackIndex) ELSE run.road,
        \* updatePlayer ran on a player in a rival's slipstream
        drafted |-> sim /\ ~w.player.isWipedOut /\ Drafting(w.player, w.rivals),
        \* the attack phase before the frame
        phaseBefore |-> w.combat.attackPhase,
        \* calls of updatePlayerAttack since the swing began
        swingTicks |-> IF w.race.trackSelectDone THEN 0
                       ELSE IF sim /\ w.combat.isAttacking THEN run.swingTicks + 1
                       ELSE IF sim THEN 0
                       ELSE run.swingTicks,
        \* the player before the frame and after the frame's updatePlayer
        before |-> w.player,
        updated |-> IF sim THEN updatePlayer(w.player, inp, w.rivals) ELSE w.player,
        \* ticks spent in FINISHED or BUSTED, counted up to CoastTicks
        coast |-> IF ~w.race.trackSelectDone /\ w.race.state \in {"FINISHED", "BUSTED"}
                    THEN Min(CoastTicks, run.coast + 1) ELSE 0,
        \* the frame was a RACING tick under hit freeze
        frozen |-> racing /\ ~sim,
        entered |-> w.race.state # "RACING" /\ w1.race.state = "RACING",
        \* distance each rival has travelled since the start line
        travel |-> [i \in 1..NumRivals |->
                      IF w.race.trackSelectDone THEN w1.rivals[i].z
                      ELSE IF sim
                        THEN run.travel[i] + ((w1.rivals[i].z - w.rivals[i].z) % TotalLength)
                        ELSE run.travel[i]],
        \* hits reported on each rival since the current swing started
        swingHits |-> [i \in 1..NumRivals |->
                         IF w.race.trackSelectDone \/ started THEN 0
                         ELSE IF sim THEN run.swingHits[i] + HitsOn(w1.hits, i)
                         ELSE run.swingHits[i]],
        \* calls of hitCop that took health off the cop since the current
        \* swing started
        swingCopHits |-> IF w.race.trackSelectDone \/ started THEN 0
                         ELSE IF sim /\ w1.police.cop.health < w.police.cop.health
                           THEN run.swingCopHits + 1
                         ELSE run.swingCopHits,
        \* the cop's position before the frame, and whether hitCop took health
        \* off the cop in the frame
        copZBefore |-> w.police.cop.z,
        copHit |-> sim /\ w1.police.cop.health < w.police.cop.health,
        \* the cash and the number of raceHistory entries the race began with
        cashAtStart |-> IF w.race.trackSelectDone THEN w1.race.progression.cash
                        ELSE run.cashAtStart,
        historyAtStart |-> IF w.race.trackSelectDone
                             THEN Len(w1.race.progression.raceHistory)
                             ELSE run.historyAtStart,
        \* the rivals that were wiped out before the frame and only ran down
        \* their wipeout timer in it
        stayedDown |-> {i \in 1..NumRivals :
                          /\ sim
                          /\ w.rivals[i].isWipedOut /\ w1.rivals[i].isWipedOut
                          /\ w1.rivals[i].wipeoutTimer < w.rivals[i].wipeoutTimer},
        \* the rivals whose wipeout ended in the frame's updateRivals, and
        \* the health that call left to each rival
        recoveredRivals |-> {i \in 1..NumRivals :
                               sim /\ w.rivals[i].isWipedOut
                                   /\ ~RivalWipeout(w.rivals[i]).isWipedOut},
        healthUpdated |-> [i \in 1..NumRivals |->
                             IF sim /\ w.rivals[i].isWipedOut
                               THEN RivalWipeout(w.rivals[i]).health
                               ELSE w.rivals[i].health],
        \* the bust timer before the frame
        bustBefore |-> w.police.bustTimer,
        \* simulated time since the cop's wipeout ended (-1: no wipeout has
        \* ended in this race), counted up to COP_RESPAWN_DELAY
        sinceDown |-> IF w.race.trackSelectDone \/ w1.race.trackSelectDone THEN -1
                      ELSE IF sim /\ w.police.cop.active /\ w.police.cop.isWipedOut
                              /\ ~w1.police.cop.active
                        THEN 0
                      ELSE IF sim /\ run.sinceDown >= 0
                        THEN Min(COP_RESPAWN_DELAY, run.sinceDown + FIXED_DT)
                      ELSE run.sinceDown ]

SetWorld(w1) ==
  /\ race' = w1.race
  /\ player' = w1.player
  /\ rivals' = w1.rivals
  /\ combat' = w1.combat
  /\ police' = w1.police
  /\ traffic' = w1.traffic
  /\ hits' = w1.hits

\* a frame that finds trackSelectDone set: rebuildTrack and return
RebuildFrame ==
  /\ race.trackSelectDone
  /\ run.races < MaxRaces
  /\ \E w1 \in {update(World, Calm)} :
        SetWorld(w1) /\ run' = RunAfter(World, w1, Calm)

\* a frame that runs updateRace, followed by input.update()
UpdateFrame(inp) ==
  /\ ~race.trackSelectDone
  /\ race.state = "RACING" => run.ticks < MaxRaceTicks
  /\ race.state = "FINISHED" => Len(race.progression.raceHistory) <= MaxRaces
  /\ (race.state \in {"RACING", "COUNTDOWN"} /\ inp # Calm) => run.events < MaxEvents
  /\ \E w1 \in {update(World, inp)} :
        SetWorld(w1) /\ run' = RunAfter(World, w1, inp)

Next ==
  \/ RebuildFrame
  \/ \E inp \in Inputs(World) : UpdateFrame(inp)

RunInit(rv) ==
  [ ticks |-> 0, events |-> 0, races |-> 0, simulated |-> FALSE, frozen |-> FALSE, coast |-> 0,
    wipedTicks |-> 0, recovered |-> FALSE, phaseBefore |-> "NONE", swingTicks |-> 0,
    picked |-> "none", sincePickup |-> 0, countBefore |-> 0,
    before |-> createPlayer, updated |-> createPlayer,
    entered |-> FALSE,
    travel |-> [i \in 1..NumRivals |-> rv[i].z],
    swingHits |-> [i \in 1..NumRivals |-> 0],
    bustBefore |-> 0, sinceDown |-> -1, drafted |-> FALSE,
    sinceHit |-> [i \in 1..NumRivals |-> -1],
    counters |-> [i \in 1..NumRivals |-> 0], hitAges |-> << >>,
    selector |-> 0, road |-> generateRoad(0), loop |-> createGameLoop,
    visited |-> {"TITLE"}, swingCopHits |-> 0, recoveredRivals |-> {},
    healthUpdated |-> [i \in 1..NumRivals |-> rv[i].health], stayedDown |-> {}, cashAtStart |-> 0, historyAtStart |-> 0, copZBefore |-> 0, copHit |-> FALSE ]

\* the state after mount(): title screen, track 0, freshly created objects
Init ==
  /\ race = createRaceData
  /\ player = createPlayer
  /\ rivals = createRivals(NumRivals)
  /\ combat = createCombatState(NumRivals)
  /\ police = createPoliceState
  /\ traffic = createTraffic(NumTraffic, 500)
  /\ hits = << >>
  /\ run = RunInit(createRivals(NumRivals))

Spec == Init /\ [][Next]_vars

(***************************************************************************)
(* Races in progress.  A race of track 0 lasts some 900 ticks, so the      *)
(* events of a race are explored from worlds in the middle of one: the     *)
(* world after rebuildTrack and the countdown, with the player, one rival  *)
(* and the cop placed as a scenario says.                                  *)
(***************************************************************************)
\* the rival a scenario places next to the player: VIPER
Partner == CHOOSE i \in 1..NumRivals : RIVAL_PROFILES[i].name = "VIPER"

\* full speed next to VIPER early in the race, four combat events so far
ScBrawl ==
  [ pz |-> 5000, px |-> 0, pspeed |-> BIKE_MAX_SPEED, phealth |-> 80,
    rdz |-> 150, rx |-> -((10 * XU) \div 100), rspeed |-> 280 * SU, rhealth |-> 100,
    tele |-> 0, count |-> 4,
    copActive |-> FALSE, copWiped |-> FALSE, copWipeTimer |-> 0,
    copDz |-> 0, copSpeed |-> 0, copHealth |-> COP_HEALTH, bustTimer |-> 0,
    wiped |-> -1, swung |-> -1, pack |-> 0, pickup |-> "none", used |-> -1,
    partner |-> "VIPER", washit |-> -1, combo |-> << >>, rdown |-> 0 ]

\* the same, VIPER half way through the telegraph of a strike
ScTelegraph == [ScBrawl EXCEPT !.tele = 2 * FIXED_DT, !.count = 0]

\* the same brawl 6600 units before the finish line
ScFinish == [ScBrawl EXCEPT !.pz = TotalLength - 6600, !.count = 0]

\* the cop rides level with the player, the bust timer two ticks from BUST_TIME
ScChase ==
  [ScBrawl EXCEPT !.rdz = 20000, !.count = 6, !.copActive = TRUE,
                  !.copDz = -100, !.copSpeed = 280 * SU,
                  !.bustTimer = BUST_TIME - 2 * FIXED_DT]

\* the cop has just overtaken the player (combat tests the position the cop
\* had before its move of the tick) and is one punch from its wipeout
ScWeakCop ==
  [ScChase EXCEPT !.copHealth = 15, !.copDz = 900, !.bustTimer = 10 * FIXED_DT]

\* a slow player, the windup of its punch over, and the cop driving past at
\* chase speed within reach of the fist
ScCopPasses ==
  [ScChase EXCEPT !.pspeed = 100 * SU, !.swung = 6, !.copDz = 450, !.bustTimer = 0]

\* the same 400 units before the finish line: the cop has crossed the line
\* and is within the first 500 units of the track
ScCopAtLine == [ScCopPasses EXCEPT !.pz = TotalLength - 400]

\* the cop follows out of bust range while the bust timer runs down
ScEscape == [ScChase EXCEPT !.copDz = -2000, !.bustTimer = 4 * FIXED_DT]

\* the cop lies wiped out behind the player, two ticks from the end of its
\* wipeout
ScCopDown ==
  [ScChase EXCEPT !.copWiped = TRUE, !.copWipeTimer = 2 * FIXED_DT,
                  !.copDz = -3000, !.copSpeed = 0, !.copHealth = 0,
                  !.bustTimer = 0]

\* VIPER, one punch from its wipeout, is two ticks from the end of the
\* telegraph of a strike
ScKnockout == [ScTelegraph EXCEPT !.rhealth = 10]

\* the player went down 5 ticks ago beside VIPER, which is two ticks from
\* the end of the telegraph of a strike
ScDownTelegraph == [ScTelegraph EXCEPT !.wiped = 5]

\* VIPER lies wiped out 150 units ahead, slowed to a crawl and two ticks from
\* the end of its wipeout
ScRivalDown == [ScBrawl EXCEPT !.rdown = 2 * FIXED_DT, !.rspeed = 10 * SU, !.count = 0]

\* VIPER's strike is about to land on a player with 10 health left
ScLastLegs == [ScTelegraph EXCEPT !.phealth = 10]

\* the player went down at full speed far from every rival and has been
\* wiped out for so many ticks: two ticks before the end of launch, of
\* tumble, of getup and of run
ScLaunchEnds == [ScBrawl EXCEPT !.rdz = 20000, !.count = 0, !.wiped = 23]

ScTumbleEnds == [ScLaunchEnds EXCEPT !.wiped = 54]

ScGetupEnds == [ScLaunchEnds EXCEPT !.wiped = 73]

ScRunEnds == [ScLaunchEnds EXCEPT !.wiped = 119, !.px = (3 * XU) \div 10]

\* the rivals far ahead, the player so many ticks into a punch: two ticks
\* before the end of ACTIVE and of the swing
ScActiveEnds == [ScLaunchEnds EXCEPT !.wiped = -1, !.swung = 14]

ScSwingEnds == [ScLaunchEnds EXCEPT !.wiped = -1, !.swung = 26]

\* the brawl with the other rival ahead on the left, falling back into the
\* reach of a chain, and a chain lying where the player is after its next
\* step (combat.ts exports spawnWeaponPickup; the game itself never calls it)
ScPickup == [ScBrawl EXCEPT !.count = 0, !.pack = 400, !.pickup = "chain"]

\* the same, the chain picked up long ago and so many hits landed with it
ScChainLast == [ScPickup EXCEPT !.used = WEAPON_STATS.chain.maxUses - 1]

\* the player rides beside the road, far from every rival
ScOffroad == [ScBrawl EXCEPT !.px = (12 * XU) \div 10, !.rdz = 20000, !.count = 0]

\* the brawl along the left edge of the road: VIPER has followed the player
\* there (an aggressive rival near the player steers for the player's lane)
ScEdge ==
  [ScBrawl EXCEPT !.px = -((90 * XU) \div 100), !.rx = -((95 * XU) \div 100),
                  !.count = 0]

\* the brawl with SHADOW, a defensive rival of the full grid, in VIPER's place
ScShadow == [ScBrawl EXCEPT !.partner = "SHADOW", !.count = 0]

\* the same, SHADOW hit by the player so many calls of updateRivalAttacks
\* ago and only now back within its attack range: one call before the
\* recently-hit flag runs out, and on the call that clears it
ScCounterLast ==
  [ScShadow EXCEPT !.washit = (RIVAL_COUNTER_WINDOW \div FIXED_DT) - 1, !.count = 1]

ScCounterOver == [ScCounterLast EXCEPT !.washit = RIVAL_COUNTER_WINDOW \div FIXED_DT]

\* the brawl after two landed hits of the player, so many simulated ticks
\* ago: both recent; the older one still inside COMBO_WINDOW on the tick on
\* which a punch thrown now lands, and just outside it
ScCombo == [ScBrawl EXCEPT !.count = 0, !.combo = <<100, 50>>]

ScComboLast == [ScCombo EXCEPT !.combo = <<(COMBO_WINDOW \div FIXED_DT) - 8, 50>>]

ScComboOver == [ScCombo EXCEPT !.combo = <<(COMBO_WINDOW \div FIXED_DT) - 7, 50>>]

Scenarios ==
  {ScBrawl, ScTelegraph, ScFinish, ScChase, ScWeakCop, ScEscape, ScCopDown,
   ScLastLegs, ScLaunchEnds, ScTumbleEnds, ScGetupEnds, ScRunEnds,
   ScActiveEnds, ScSwingEnds, ScPickup, ScChainLast, ScOffroad, ScEdge,
   ScShadow, ScCounterLast, ScCounterOver, ScCombo, ScComboLast, ScComboOver, ScCopPasses,
   ScCopAtLine, ScKnockout, ScDownTelegraph, ScRivalDown}

\* the player after k more calls of updateWipeout, or when it has recovered
RECURSIVE WipedFor(_, _)
WipedFor(p, k) ==
  IF k <= 0 \/ ~p.isWipedOut THEN p ELSE WipedFor(updateWipeout(p), k - 1)

\* world w with its player wiped out k ticks ago (k < 0: not wiped out)
WipedWorld(w, k) ==
  IF k < 0 THEN w ELSE [w EXCEPT !.player = WipedFor(StartWipeout(w.player), k)]

\* the combat state of a rival after k more calls of updateRivalAttacks
\* away from the player
RECURSIVE WasHitFor(_, _)
WasHitFor(rs, k) ==
  IF k <= 0 \/ ~rs.wasHitRecently THEN rs ELSE WasHitFor(DecayWasHit(rs), k - 1)

\* the profile of the rival called name
ProfileOf(name) ==
  RIVAL_PROFILES[CHOOSE j \in 1..Len(RIVAL_PROFILES) : RIVAL_PROFILES[j].name = name]

PlacedWorld(sc) ==
  LET w0 == rebuildTrack([race |-> createRaceData, player |-> createPlayer,
                          rivals |-> createRivals(NumRivals),
                          combat |-> createCombatState(NumRivals),
                          police |-> createPoliceState,
                          traffic |-> createTraffic(NumTraffic, 500),
                          hits |-> << >>], Calm)
      rs == createRivalCombatState
  IN  [w0 EXCEPT
         !.race.state = "RACING", !.race.countdown = 0,
         !.race.raceTimer = (sc.pz \div Advance(BIKE_MAX_SPEED)) * FIXED_DT,
         !.player.z = sc.pz, !.player.x = sc.px, !.player.speed = sc.pspeed,
         !.player.health = sc.phealth,
         !.rivals = [i \in 1..NumRivals |->
                       IF i = Partner
                         THEN [w0.rivals[i] EXCEPT
                                 !.z = (sc.pz + sc.rdz) % TotalLength,
                                 !.name = sc.partner,
                                 !.personality = ProfileOf(sc.partner).personality,
                                 !.x = sc.rx, !.targetX = sc.rx,
                                 !.speed = sc.rspeed,
                                 !.health = IF sc.rdown > 0 THEN 0 ELSE sc.rhealth,
                                 !.isWipedOut = sc.rdown > 0,
                                 !.wipeoutTimer = sc.rdown,
                                 !.laneChangeTimer = LANE_CHANGE_MIN]
                       ELSE IF sc.pack > 0
                         THEN [w0.rivals[i] EXCEPT
                                 !.z = (sc.pz + sc.pack) % TotalLength,
                                 !.x = -((4 * XU) \div 10),
                                 !.targetX = -((4 * XU) \div 10),
                                 !.speed = sc.rspeed, !.health = sc.rhealth,
                                 !.laneChangeTimer = LANE_CHANGE_MIN]
                         ELSE [w0.rivals[i] EXCEPT
                                 !.z = (sc.pz + 30000 + 3000 * i) % TotalLength,
                                 !.speed = w0.rivals[i].baseSpeed]],
         !.combat.comboHits = [k \in 1..Len(sc.combo) |-> sc.combo[k] * FIXED_DT],
         !.combat.rivalStates[Partner] =
            IF sc.tele > 0
              THEN [rs EXCEPT !.telegraphing = TRUE, !.telegraphTimer = sc.tele,
                              !.cooldownTimer = RIVAL_ATTACK_COOLDOWN
                                                - (RIVAL_TELEGRAPH_DURATION - sc.tele)]
            ELSE IF sc.washit >= 0
              THEN WasHitFor([rs EXCEPT
                                !.wasHitRecently = TRUE,
                                !.wasHitTimer = RIVAL_COUNTER_WINDOW,
                                !.wasHitTimerErr =
                                   DoubleOf(RIVAL_COUNTER_WINDOW \div FIXED_DT)],
                             sc.washit)
              ELSE rs,
         !.police.combatCount = sc.count,
         !.police.bustTimer = sc.bustTimer,
         !.police.sirenSoundActive = sc.copActive /\ ~sc.copWiped,
         !.police.cop = [w0.police.cop EXCEPT
                           !.active = sc.copActive, !.isWipedOut = sc.copWiped,
                           !.wipeoutTimer = sc.copWipeTimer,
                           !.z = JsMod(sc.pz + sc.copDz, TotalLength),
                           !.x = sc.px, !.speed = sc.copSpeed,
                           !.health = sc.copHealth]]

\* the swing k ticks after it started
RECURSIVE SwungFor(_, _, _)
SwungFor(st, p, k) ==
  IF k <= 0 \/ ~st.combat.isAttacking THEN st
  ELSE SwungFor(updatePlayerAttack(st, p, Calm), p, k - 1)

\* world w with its player k ticks into a punch (k < 0: no swing)
SwungWorld(w, k) ==
  IF k < 0 THEN w
  ELSE [w EXCEPT !.combat =
          SwungFor(updatePlayerAttack([combat |-> w.combat, rivals |-> w.rivals,
                                       hits |-> << >>], w.player, Punch),
                   w.player, k).combat]

\* the combat state after k more landed hits
RECURSIVE UsedFor(_, _)
UsedFor(c, k) == IF k <= 0 THEN c ELSE UsedFor(ConsumeWeaponUse(c), k - 1)

\* world w with a weapon pickup spawned: ahead of the player (k < 0), or
\* collected where the player is and used for k hits
ArmedWorld(w, type, k) ==
  IF type = "none" THEN w
  ELSE IF k < 0
    THEN [w EXCEPT !.combat = spawnWeaponPickup(w.combat, type,
                                                w.player.z + Advance(w.player.speed),
                                                w.player.x)]
  ELSE [w EXCEPT !.combat =
          UsedFor(updateWeaponPickups(
                    spawnWeaponPickup(w.combat, type, w.player.z, w.player.x),
                    w.player, 1), k)]

RacingWorld(sc) ==
  ArmedWorld(SwungWorld(WipedWorld(PlacedWorld(sc), sc.wiped), sc.swung),
             sc.pickup, sc.used)

InitRacing ==
  \E sc \in Scenarios :
     \E w \in {RacingWorld(sc)} :
        /\ race = w.race
        /\ player = w.player
        /\ rivals = w.rivals
        /\ combat = w.combat
        /\ police = w.police
        /\ traffic = w.traffic
        /\ hits = << >>
        /\ run = [RunInit(w.rivals) EXCEPT !.races = 1,
                                           !.visited = {"TITLE", "COUNTDOWN", "RACING"},
                                           !.wipedTicks = Max(0, sc.wiped),
                                           !.swingTicks = Max(0, sc.swung),
                                           !.phaseBefore = w.combat.attackPhase,
                                           !.picked = IF sc.used >= 0 THEN sc.pickup
                                                                      ELSE "none",
                                           !.sincePickup = Max(0, sc.used),
                                           !.countBefore = sc.count,
                                           !.sinceHit[Partner] = sc.washit - 1,
                                           !.hitAges = sc.combo]

SpecRacing == InitRacing /\ [][Next]_vars

(***************************************************************************)
(* The end of a race on the grid of index.ts: the player crosses the line  *)
(* in any of the positions that GRID_RIVALS rivals leave to it.  The       *)
(* results hold the rivals that finished before the player.                *)
(***************************************************************************)
\* the race of world w on the tick the player crosses the line in position pos
FinishingRace(w, pos) ==
  PlayerCrossing([w.race EXCEPT
                    !.raceTimer = 60 * TU,
                    !.results = [k \in 1..(pos - 1) |->
                                   [name |-> RIVAL_PROFILES[k].name, position |-> k,
                                    time |-> (50 + k) * TU]],
                    !.nextPosition = pos],
                 [w.player EXCEPT !.z = w.race.raceDistance])

InitFinished ==
  \E pos \in 1..(GRID_RIVALS + 1) :
     \E w \in {RacingWorld(ScFinish)} :
        /\ race = FinishingRace(w, pos)
        /\ player = [w.player EXCEPT !.z = w.race.raceDistance]
        /\ rivals = w.rivals
        /\ combat = w.combat
        /\ police = w.police
        /\ traffic = w.traffic
        /\ hits = << >>
        /\ run = [RunInit(w.rivals) EXCEPT !.races = 1,
                                           !.visited = {"TITLE", "COUNTDOWN", "RACING",
                                                        "FINISHED"}]

SpecFinished == InitFinished /\ [][Next]_vars

(***************************************************************************)
(* GameLoop on its own: animation frames at any interval, updateFn and     *)
(* renderFn being the caller's.  calls holds the dt of each updateFn call  *)
(* of the last animation frame, frames counts the animation frames.        *)
(***************************************************************************)
\* intervals between two animation frames, in 1/TU s: none, 6.7 ms, 16.7 ms,
\* 28.3 ms, 45 ms, 100 ms and a second
FrameIntervals == {0, 4, 10, 17, 27, 60, 600}

\* the state of mount() with a GameLoop constructed and not started
InitLoop ==
  /\ race = createRaceData
  /\ player = createPlayer
  /\ rivals = createRivals(NumRivals)
  /\ combat = createCombatState(NumRivals)
  /\ police = createPoliceState
  /\ traffic = createTraffic(NumTraffic, 500)
  /\ hits = << >>
  /\ run = RunInit(createRivals(NumRivals))

\* GameLoop.start
LoopStart ==
  /\ ~run.loop.running
  /\ run' = [run EXCEPT !.loop = [@ EXCEPT !.running = TRUE, !.paused = FALSE,
                                            !.accumulator = 0, !.lastTime = 0,
                                            !.calls = << >>]]
  /\ UNCHANGED <<race, player, rivals, combat, police, traffic, hits>>

\* the animation frame callback tick(timestamp), the previous one having run
\* interval earlier
LoopTick(interval) ==
  /\ run.loop.running
  /\ run.loop.frames < MaxFrames
  /\ run' = [run EXCEPT !.loop = tick(run.loop, run.loop.clock + interval)]
  /\ UNCHANGED <<race, player, rivals, combat, police, traffic, hits>>

\* GameLoop.pause
LoopPause ==
  /\ ~run.loop.paused
  /\ run' = [run EXCEPT !.loop.paused = TRUE]
  /\ UNCHANGED <<race, player, rivals, combat, police, traffic, hits>>

\* GameLoop.resume
LoopResume ==
  /\ run.loop.paused
  /\ run' = [run EXCEPT !.loop.paused = FALSE]
  /\ UNCHANGED <<race, player, rivals, combat, police, traffic, hits>>

\* GameLoop.stop
LoopStop ==
  /\ run.loop.running
  /\ run' = [run EXCEPT !.loop.running = FALSE]
  /\ UNCHANGED <<race, player, rivals, combat, police, traffic, hits>>

NextLoop ==
  \/ LoopStart
  \/ \E interval \in FrameIntervals : LoopTick(interval)
  \/ LoopPause
  \/ LoopResume
  \/ LoopStop

SpecLoop == InitLoop /\ [][NextLoop]_vars

(***************************************************************************)
(* generateRoad on its own: a call with any integer selector.              *)
(***************************************************************************)
\* the result before the call
NoRoad == [trackId |-> -1, segments |-> 0]

\* the state of mount() with a selector waiting to be handed to generateRoad
InitRoad ==
  /\ race = createRaceData
  /\ player = createPlayer
  /\ rivals = createRivals(NumRivals)
  /\ combat = createCombatState(NumRivals)
  /\ police = createPoliceState
  /\ traffic = createTraffic(NumTraffic, 500)
  /\ hits = << >>
  /\ \E t \in (-MaxSelector)..(MaxSelector + 3) :
        run = [RunInit(createRivals(NumRivals)) EXCEPT !.selector = t, !.road = NoRoad]

\* the call generateRoad(run.selector)
GenerateRoad ==
  /\ run.road = NoRoad
  /\ run' = [run EXCEPT !.road = generateRoad(run.selector)]
  /\ UNCHANGED <<race, player, rivals, combat, police, traffic, hits>>

NextRoad == GenerateRoad

SpecRoad == InitRoad /\ [][NextRoad]_vars

(***************************************************************************)
(* Properties                                                              *)
(***************************************************************************)
\* C1: one swing of the player reports at most one hit per rival index,
\* however many ACTIVE ticks it has and however the hit-freeze frames fall
\* between them.
C1_OneHitPerSwing == \A i \in 1..NumRivals : run.swingHits[i] <= 1

\* an ACTIVE tick after the hit and its hit-freeze: the rival is still in
\* range and is not hit again
C1_Witness ==
  /\ run.simulated /\ combat.isAttacking /\ combat.attackPhase = "ACTIVE"
  /\ hits = << >>
  /\ \E i \in 1..NumRivals :
        /\ i \in combat.hitSet /\ run.swingHits[i] = 1
        /\ ~rivals[i].isWipedOut
        /\ InPlayerRange(combat, player, rivals[i])

\* C2: a simulated RACING tick runs player physics, rival AI, combat, police
\* and finish bookkeeping in this order, each reading what the earlier ones
\* wrote in the same tick.  Combat tests the positions the player and the
\* rivals moved to; the police see the combat count of this tick's hits, so
\* the cop is spawned on the tick of the hit that reaches COMBAT_THRESHOLD;
\* the bookkeeping sees the player's new position, so the race is never
\* left RACING with the player at or beyond the race distance.  (The reach
\* is that of the weapon in hand when the hit landed.)
C2_TickOrder ==
  /\ race.state = "RACING" => player.z < race.raceDistance
  /\ (run.simulated /\ race.state = "RACING"
      /\ police.combatCount >= COMBAT_THRESHOLD)
        => (police.cop.active \/ police.respawnTimer = COP_RESPAWN_DELAY)
  /\ run.simulated =>
        \A k \in 1..Len(hits) :
           hits[k].targetIndex >= 1 =>
              Abs(wrappedDelta(rivals[hits[k].targetIndex].z, player.z, TotalLength))
                 <= IF run.picked = "none" THEN combat.range.z
                    ELSE Max(combat.range.z, WEAPON_STATS[run.picked].rangeZ)

\* the tick of the hit that takes the combat count to COMBAT_THRESHOLD: the
\* cop is spawned in the same tick
C2_Witness ==
  /\ run.simulated /\ race.state = "RACING"
  /\ HitsOn(hits, Partner) = 1
  /\ police.combatCount = COMBAT_THRESHOLD
  /\ police.cop.active /\ police.warningTimer = WARNING_DURATION

\* C3: whenever the race enters RACING, raceTimer, hitFreezeTimer, the
\* police bust, warning and respawn timers, the combat attack and cooldown
\* timers and the player's wipeout timers are all 0.
C3_TimersZeroOnEntry ==
  run.entered =>
    /\ race.raceTimer = 0 /\ race.hitFreezeTimer = 0
    /\ police.bustTimer = 0 /\ police.warningTimer = 0 /\ police.respawnTimer = 0
    /\ combat.attackTimer = 0 /\ combat.cooldownTimer = 0
    /\ player.wipeoutTimer = 0 /\ player.wipeoutPhaseTimer = 0

\* C4: the race becomes BUSTED exactly on the first simulated tick at which
\* the bust timer reaches BUST_TIME, from RACING only and so at most once per
\* race; police.busted then stays set and the race stays BUSTED until a
\* confirm input starts the reset, and BUSTED is left only by the rebuild.
C4_Busted ==
  /\ [](race.state = "RACING" => ~police.busted /\ police.bustTimer < BUST_TIME)
  /\ []((race.state = "BUSTED" /\ ~race.trackSelectDone)
           => police.busted /\ police.bustTimer >= BUST_TIME)
  /\ [][ /\ (race.state # "BUSTED" /\ race'.state = "BUSTED")
              => /\ race.state = "RACING" /\ run'.simulated
                 /\ police.bustTimer < BUST_TIME /\ police'.bustTimer >= BUST_TIME
         /\ (race.state = "BUSTED" /\ ~race.trackSelectDone)
              => /\ race'.state = "BUSTED"
                 /\ police'.busted \/ race'.trackSelectDone
         /\ (race.state = "BUSTED" /\ race'.state # "BUSTED")
              => race.trackSelectDone /\ race'.state = "COUNTDOWN" ]_vars

\* the tick on which the bust timer reaches BUST_TIME
C4_Witness ==
  /\ race.state = "BUSTED" /\ run.simulated
  /\ police.busted /\ police.bustTimer = BUST_TIME
  /\ run.bustBefore = BUST_TIME - FIXED_DT

\* TRUE when the cop is within BUST_RANGE_Z and BUST_RANGE_X of the player
CopNear ==
  /\ Abs(wrappedDelta(police.cop.z, player.z, TotalLength)) < BUST_RANGE_Z
  /\ Abs(police.cop.x - player.x) < BUST_RANGE_X

\* C5: on a simulated RACING tick on which the cop is not within bust range
\* of the player, a positive bust timer goes down by half of dt, floored at
\* 0: it is not reset to zero and not held constant.
C5_BustTimerDecays ==
  (run.simulated /\ run.bustBefore > 0 /\ ~CopNear)
     => police.bustTimer = Max(0, run.bustBefore - FIXED_DT \div 2)

\* C6: a cop at zero health stays wiped out for COP_WIPEOUT_DURATION, then
\* is inactive, and is not active again before COP_RESPAWN_DELAY of simulated
\* time has passed since its wipeout ended.
C6_RespawnDelay ==
  /\ police.cop.isWipedOut
       => /\ police.cop.active /\ police.cop.health = 0
          /\ police.cop.wipeoutTimer > 0
          /\ police.cop.wipeoutTimer <= COP_WIPEOUT_DURATION
  /\ (police.cop.active /\ run.sinceDown >= 0)
       => run.sinceDown >= COP_RESPAWN_DELAY

\* C7: a rival whose travel since the start line has reached the race
\* distance has a result entry with its name, from the tick on which it got
\* there.
C7_RivalRecorded ==
  \A i \in 1..NumRivals :
     (race.state \in {"RACING", "FINISHED"} /\ run.travel[i] >= race.raceDistance)
        => HasResult(race.results, rivals[i].name)

\* C8: the results hold each name at most once, their positions are 1, 2,
\* ..., k in list order, and while RACING nextPosition is k + 1.
C8_ResultsOrdered ==
  /\ \A j, k \in 1..Len(race.results) :
        race.results[j].name = race.results[k].name => j = k
  /\ \A k \in 1..Len(race.results) : race.results[k].position = k
  /\ race.state = "RACING" => race.nextPosition = Len(race.results) + 1

\* the player has crossed the line and holds the first entry
C8_Witness ==
  /\ race.state = "FINISHED" /\ run.simulated
  /\ Len(race.results) = 1 /\ race.results[1].name = "YOU"
  /\ race.finishPosition = 1 /\ race.nextPosition = 2

\* C9: if every rival has a result while the player has not finished, the
\* same tick records YOU in last place, sets playerFinished and makes the
\* race FINISHED.
C9_ForcedFinish ==
  (run.simulated
   /\ \A i \in 1..NumRivals : HasResult(race.results, rivals[i].name))
     => /\ race.playerFinished /\ race.state = "FINISHED"
        /\ \E k \in 1..Len(race.results) :
              race.results[k].name = "YOU" /\ race.results[k].position = NumRivals + 1

\* C10: every landed combat hit, of the player on a rival or of a rival on
\* the player, sets the hit-freeze timer to the freeze duration.
C10_HitFreezeOnHit ==
  (run.simulated /\ hits # << >>) => race.hitFreezeTimer = HIT_FREEZE

\* a punch of the player lands on a rival: the freeze timer is set
C10_WitnessRivalHit ==
  /\ run.simulated /\ HitsOn(hits, Partner) = 1 /\ race.hitFreezeTimer = HIT_FREEZE

\* C11: a RACING tick that starts with hitFreezeTimer > 0 takes dt off
\* hitFreezeTimer and changes nothing else: player, rivals, combat, police,
\* traffic, raceTimer, results and the race state stay as they were.
C11_FrozenTick ==
  [][ (race.state = "RACING" /\ ~race.trackSelectDone /\ race.hitFreezeTimer > 0)
        => /\ race' = [race EXCEPT !.hitFreezeTimer = race.hitFreezeTimer - FIXED_DT]
           /\ player' = player /\ rivals' = rivals /\ combat' = combat
           /\ police' = police /\ traffic' = traffic ]_vars

\* the first frozen tick after a landed hit
C11_Witness ==
  /\ run.frozen /\ race.state = "RACING"
  /\ race.hitFreezeTimer = HIT_FREEZE - FIXED_DT
  /\ race.raceTimer > 0

\* C12: in FINISHED and BUSTED the player's speed goes down tick by tick
\* (by 200 dt, by 300 dt when busted) to 0, which it reaches within
\* CoastTicks ticks, and on each of those ticks the position advances by the
\* new speed x SEGMENT_LENGTH x dt (in whole world units): it never goes
\* back and does not stop while the speed is positive.
C12_CoastToStop ==
  /\ [](race.state \in {"FINISHED", "BUSTED"}
          => player.speed <= Max(0, player.maxSpeed - run.coast * CoastStep(200)))
  /\ [][ (race.state \in {"FINISHED", "BUSTED"} /\ ~race.trackSelectDone)
           => /\ player'.speed <= player.speed
              /\ player'.speed =
                   Max(0, player.speed
                          - CoastStep(IF race.state = "BUSTED" THEN 300 ELSE 200))
              /\ player'.z = player.z + Advance(player'.speed)
              /\ player'.z >= player.z ]_vars

\* the player has coasted to a stop after the finish line
C12_Witness ==
  /\ race.state = "FINISHED" /\ ~race.trackSelectDone
  /\ player.speed = 0 /\ player.z > race.raceDistance
  /\ run.coast > 1 /\ run.coast < CoastTicks

\* the wipeout phases in their order
PhaseAfter ==
  [ none |-> "launch", launch |-> "tumble", tumble |-> "getup", getup |-> "run",
    run |-> "none" ]

\* C13: a wiped-out player is in one of the phases launch, tumble, getup,
\* run, and one call of updateWipeout leaves the phase where it is or moves
\* it to the next one of launch -> tumble -> getup -> run -> none: never
\* back, never past a phase.
C13_PhaseOrder ==
  /\ player.isWipedOut => player.wipeoutPhase \in {"launch", "tumble", "getup", "run"}
  /\ (run.simulated /\ run.before.isWipedOut)
       => run.updated.wipeoutPhase
             \in {run.before.wipeoutPhase, PhaseAfter[run.before.wipeoutPhase]}

\* the call of updateWipeout that takes the player from launch to tumble
C13_Witness ==
  /\ run.simulated /\ run.before.isWipedOut
  /\ run.before.wipeoutPhase = "launch" /\ run.updated.wipeoutPhase = "tumble"
  /\ player.wipeoutPhase = "tumble"

\* C14: the four phase durations add up to WIPEOUT_DURATION, and the player
\* recovers on the tick that completes WIPEOUT_DURATION of simulated
\* wiped-out time (WIPEOUT_DURATION / dt calls of updateWipeout), from phase
\* run and from no other phase.
C14_RecoveryAfterDuration ==
  /\ PHASE_LAUNCH + PHASE_TUMBLE + PHASE_GETUP + PHASE_RUN = PLAYER_WIPEOUT_DURATION
  /\ run.recovered
       => /\ run.wipedTicks * FIXED_DT = PLAYER_WIPEOUT_DURATION
          /\ run.before.wipeoutPhase = "run"

\* C15: at the end of the player update in which the wipeout recovery
\* occurs, the player has health WIPEOUT_RESPAWN_HEALTH (less than full
\* health), x = 0, speed = 0, is not wiped out and is in phase none.
C15_Recovered ==
  /\ WIPEOUT_RESPAWN_HEALTH < createPlayer.maxHealth
  /\ (run.simulated /\ run.before.isWipedOut /\ ~run.updated.isWipedOut)
       => /\ run.updated.health = WIPEOUT_RESPAWN_HEALTH
          /\ run.updated.x = 0
          /\ run.updated.speed = 0
          /\ run.updated.wipeoutPhase = "none"

\* a player that was off the centre line with no health recovers
C15_Witness ==
  /\ run.simulated /\ run.before.isWipedOut /\ ~run.updated.isWipedOut
  /\ run.before.health = 0 /\ run.before.x # 0
  /\ run.updated.health = WIPEOUT_RESPAWN_HEALTH /\ run.updated.x = 0
  /\ player.health = WIPEOUT_RESPAWN_HEALTH

\* C16: a player that starts a simulated RACING tick with health <= 0 and
\* not wiped out is, at the end of that tick's player update, wiped out in
\* phase launch with health 0 and wipeoutTimer = WIPEOUT_DURATION.
C16_WipeoutStarts ==
  (run.simulated /\ ~run.before.isWipedOut /\ run.before.health <= 0)
    => /\ run.updated.isWipedOut
       /\ run.updated.wipeoutPhase = "launch"
       /\ run.updated.health = 0
       /\ run.updated.wipeoutTimer = PLAYER_WIPEOUT_DURATION
       /\ run.updated.wipeoutTimerErr = DoubleOf(PLAYER_WIPEOUT_DURATION \div FIXED_DT)

\* a rival's strike has taken the moving player's health below 0
C16_Witness ==
  /\ run.simulated /\ ~run.before.isWipedOut
  /\ run.before.health < 0 /\ run.before.speed > 0
  /\ run.updated.isWipedOut /\ run.updated.health = 0
  /\ player.isWipedOut /\ player.wipeoutPhase = "launch"

\* the steps of the attack phase that one tick may take
AttackPhaseSteps ==
  { <<"NONE", "NONE">>, <<"NONE", "WINDUP">>, <<"WINDUP", "WINDUP">>,
    <<"WINDUP", "ACTIVE">>, <<"ACTIVE", "ACTIVE">>, <<"ACTIVE", "RECOVERY">>,
    <<"RECOVERY", "RECOVERY">>, <<"RECOVERY", "NONE">> }

\* C17: during a race the attack phase of the player moves only along
\* NONE -> WINDUP -> ACTIVE -> RECOVERY -> NONE, one phase at a time, and a
\* swing, whose duration is WIND_UP + ACTIVE_WINDOW + RECOVERY = 0.45 s,
\* returns to NONE on the tick at which the attack timer reaches that
\* duration and on no earlier tick.
C17_SwingPhases ==
  [][ (race.state = "RACING" /\ ~race.trackSelectDone)
        => /\ <<combat.attackPhase, combat'.attackPhase>> \in AttackPhaseSteps
           /\ (run'.simulated /\ combat.isAttacking)
                => /\ combat.attackDuration = WIND_UP + ACTIVE_WINDOW + RECOVERY
                   /\ combat.attackDuration * 100 = 45 * TU
                   /\ combat.attackPhase # "NONE"
                   /\ (combat'.attackPhase = "NONE")
                        <=> SwingOver(combat.attackTimer + FIXED_DT,
                                      DoubleRound((combat.attackTimer + FIXED_DT) \div FIXED_DT,
                                                  combat.attackTimerErr),
                                      TOTAL_ATTACK)
                   /\ combat'.isAttacking <=> combat'.attackPhase # "NONE" ]_vars

\* a swing that went through RECOVERY has just returned to NONE
C17_Witness ==
  /\ run.simulated /\ run.phaseBefore = "RECOVERY" /\ run.swingTicks > 0
  /\ combat.attackPhase = "NONE" /\ ~combat.isAttacking /\ combat.attackTimer = 0

\* C18: the hits that updateCombat returns hold a hit of the player on a
\* rival only on a tick on which the player's attack phase is ACTIVE, never
\* while it is NONE, WINDUP or RECOVERY; on every other tick no rival loses
\* health to a hit of the player.
C18_HitsOnlyWhenActive ==
  /\ \A k \in 1..Len(hits) :
       hits[k].targetIndex >= 1
         => /\ combat.attackPhase = "ACTIVE" /\ combat.isAttacking
            /\ run.simulated /\ run.phaseBefore \in {"WINDUP", "ACTIVE"}
  /\ combat.attackPhase \in {"NONE", "WINDUP", "RECOVERY"}
       => \A i \in 1..NumRivals : HitsOn(hits, i) = 0

\* the punch lands on the first ACTIVE tick of the swing
C18_Witness ==
  /\ run.simulated /\ run.phaseBefore = "WINDUP" /\ combat.attackPhase = "ACTIVE"
  /\ \E k \in 1..Len(hits) : hits[k].targetIndex >= 1 /\ hits[k].damage > 0

\* the damage of a landed hit for a base damage
HitDamage(hit, base) ==
  IF hit.isCritical THEN RoundDiv(base * CRITICAL_MULTIPLIER, 10) ELSE base

\* the place of hit k of this frame among the player's landed hits since the
\* pickup
HitRank(k) ==
  run.sincePickup - PlayerHits(hits)
    + Cardinality({j \in 1..k : hits[j].targetIndex >= 1})

\* C19: after the player has collected a weapon with N uses, the next N
\* landed hits on rivals carry that weapon's damage and every later one the
\* fist's; the weapon's uses are N less the hits landed since, and from the
\* N-th hit on the weapon is the unlimited fist with the fist's damage,
\* range and cooldown.
C19_WeaponUses ==
  run.picked # "none"
    => /\ \A k \in 1..Len(hits) :
            hits[k].targetIndex >= 1
              => hits[k].damage
                   = HitDamage(hits[k],
                               IF HitRank(k) <= WEAPON_STATS[run.picked].maxUses
                                 THEN WEAPON_STATS[run.picked].damage
                                 ELSE WEAPON_STATS.fist.damage)
       /\ IF run.sincePickup < WEAPON_STATS[run.picked].maxUses
            THEN /\ combat.weapon
                      = [type |-> run.picked,
                         uses |-> WEAPON_STATS[run.picked].maxUses - run.sincePickup]
                 /\ combat.damage = WEAPON_STATS[run.picked].damage
            ELSE /\ combat.weapon = [type |-> "fist", uses |-> -1]
                 /\ combat.damage = WEAPON_STATS.fist.damage
                 /\ combat.range = [x |-> WEAPON_STATS.fist.rangeX,
                                    z |-> WEAPON_STATS.fist.rangeZ]
                 /\ combat.cooldown = WEAPON_STATS.fist.cooldown

\* one swing lands the chain's last hit and then a hit with the fist
C19_Witness ==
  /\ run.picked = "chain" /\ run.simulated
  /\ run.sincePickup = WEAPON_STATS.chain.maxUses + 1
  /\ Len(hits) = 2 /\ PlayerHits(hits) = 2
  /\ hits[1].damage = HitDamage(hits[1], WEAPON_STATS.chain.damage)
  /\ hits[2].damage = HitDamage(hits[2], WEAPON_STATS.fist.damage)
  /\ combat.weapon.type = "fist"

\* the frame resets the race: the track is rebuilt, or the player leaves the
\* BUSTED screen
ResetStep == race.trackSelectDone \/ race'.trackSelectDone

\* C20: on a simulated RACING tick the police combat counter grows by one
\* for each hit that updateCombat returns, the player's hits on rivals and
\* the rivals' hits on the player alike; on every other frame it keeps its
\* value, and it goes down only when the race is reset.
C20_CombatCount ==
  [][ /\ run'.simulated => police'.combatCount = police.combatCount + Len(hits')
      /\ ~run'.simulated
           => \/ police'.combatCount = police.combatCount
              \/ ResetStep /\ police'.combatCount = 0
      /\ police'.combatCount < police.combatCount => ResetStep ]_vars

\* a tick on which two hits were returned and counted
C20_Witness ==
  /\ run.simulated /\ Len(hits) = 2
  /\ police.combatCount = run.countBefore + 2

\* the world that updatePolice sees in a simulated tick from world w
BeforePolice(w, inp) ==
  StageCombat(StageRivals(StagePlayer([w EXCEPT !.hits = << >>,
                                                !.race.raceTimer = w.race.raceTimer + FIXED_DT],
                                      inp), inp), inp)

\* the cop as the claim places it for player p: 3000 units behind on the
\* wrapped track, in p's lane, at 0.8 times p's speed
CopBehind(cop, p) ==
  [cop EXCEPT !.active = TRUE, !.isWipedOut = FALSE, !.health = COP_HEALTH,
              !.speed = (p.speed * 8) \div 10, !.x = p.x,
              !.z = (p.z - 3000 + TotalLength) % TotalLength]

\* C21: the cop is never active while the combat counter is below
\* COMBAT_THRESHOLD; a police update that finds the cop inactive and the
\* counter at or above the threshold spawns it 3000 units behind the player
\* on the wrapped track, in the player's lane, at 0.8 times the player's
\* speed, and the chase step of the same update starts from that spawn.
C21_CopSpawn ==
  [][ /\ police.cop.active => police.combatCount >= COMBAT_THRESHOLD
      /\ police'.cop.active => police'.combatCount >= COMBAT_THRESHOLD
      /\ \A inp \in Inputs(World) :
           ( /\ UpdateFrame(inp) /\ Simulates(World)
             /\ ~BeforePolice(World, inp).police.cop.active
             /\ BeforePolice(World, inp).police.combatCount >= COMBAT_THRESHOLD )
           => /\ police'.cop.active
              /\ police'.cop =
                   ChaseStep([BeforePolice(World, inp).police EXCEPT
                                !.warningTimer = WARNING_DURATION,
                                !.cop = CopBehind(BeforePolice(World, inp).police.cop,
                                                  BeforePolice(World, inp).player)],
                             BeforePolice(World, inp).player).cop ]_vars

\* a tick whose landed hit took the counter to the threshold: the cop is
\* active, in the player's lane, behind the player
C21_Witness ==
  /\ run.simulated /\ run.countBefore < COMBAT_THRESHOLD
  /\ police.combatCount >= COMBAT_THRESHOLD
  /\ police.cop.active /\ police.cop.x = player.x
  /\ wrappedDelta(police.cop.z, player.z, TotalLength) < 0

\* C22: at the end of every tick the track position of the player, of each
\* rival and of the cop is at least 0 and below the total track length.
C22_WrappedPositions ==
  /\ 0 <= player.z /\ player.z < TotalLength
  /\ \A i \in 1..Len(rivals) : 0 <= rivals[i].z /\ rivals[i].z < TotalLength
  /\ 0 <= police.cop.z /\ police.cop.z < TotalLength

\* C23: at the end of every tick the health of the player and of every rival
\* lies between 0 and its maximum.
C23_HealthInRange ==
  /\ 0 <= player.health /\ player.health <= player.maxHealth
  /\ \A i \in 1..Len(rivals) :
       0 <= rivals[i].health /\ rivals[i].health <= rivals[i].maxHealth

\* C24: at the end of every tick, in every race state, the player's speed is
\* at least 0 and at most player.maxSpeed.
C24_SpeedInRange ==
  0 <= player.speed /\ player.speed <= player.maxSpeed

\* a simulated tick that began at full speed in a rival's slipstream with the
\* throttle held: the slipstream bonus is cut off at maxSpeed
C24_Witness ==
  /\ run.simulated /\ run.drafted
  /\ run.before.speed = run.before.maxSpeed
  /\ run.updated.speed = player.maxSpeed

\* TRUE when two frames hold the same keys that updatePlayer reads
SameKeys(i1, i2) ==
  /\ i1.accel = i2.accel /\ i1.brake = i2.brake
  /\ i1.left = i2.left /\ i1.right = i2.right

\* C25: updatePlayer is deterministic, off the road too: from the same
\* player, road, rivals and keys it always gives the same player, whatever
\* the random draws of the frame.
C25_Deterministic ==
  \A i1, i2 \in Inputs(World) :
     SameKeys(i1, i2) => updatePlayer(player, i1, rivals) = updatePlayer(player, i2, rivals)

\* TRUE for a simulated frame with input inp in which a player that is not
\* wiped out holds no steering key on a segment of curvature 0
StraightFrame(inp) ==
  /\ UpdateFrame(inp) /\ Simulates(World)
  /\ ~player.isWipedOut
  /\ ~inp.left /\ ~inp.right
  /\ RoadCurve(SegIdx(player.z)) = 0

\* C26 as stated: for a player that is not wiped out, a tick with no steering
\* input on a segment of curvature 0 leaves the lateral offset x unchanged.
C26_NoDrift ==
  [][ \A inp \in Inputs(World) : StraightFrame(inp) => player'.x = player.x ]_vars

\* C26 amended: the same for a player on the road (|x| <= 1); beside the road
\* the off-road rumble moves x.
C26_NoDriftOnRoad ==
  [][ \A inp \in Inputs(World) :
        (StraightFrame(inp) /\ Abs(player.x) <= XU) => player'.x = player.x ]_vars

\* a tick without steering on a straight left the player where it was, away
\* from the middle of the road and at speed
C26_Witness ==
  /\ run.simulated /\ ~run.before.isWipedOut
  /\ RoadCurve(SegIdx(run.before.z)) = 0
  /\ run.before.x # 0 /\ Abs(run.before.x) <= XU
  /\ run.before.speed > 0
  /\ player.x = run.before.x /\ run.updated.x = run.before.x

\* the curvatures under the vehicles of the race
CurvesInPlay ==
  {RoadCurve(SegIdx(player.z)), RoadCurve(SegIdx(police.cop.z))}
    \cup {RoadCurve(SegIdx(rivals[i].z)) : i \in 1..Len(rivals)}

\* the speed ratios, in 1/1000, of the vehicles of the race
RatiosInPlay ==
  {(player.speed * 1000) \div player.maxSpeed, (police.cop.speed * 1000) \div (300 * SU)}
    \cup {(rivals[i].speed * 1000) \div (300 * SU) : i \in 1..Len(rivals)}

\* C27: the player, the rivals and the cop apply one centrifugal formula:
\* for the same curvature, speed ratio and dt the lateral offset of each is
\* reduced by the same amount.
C27_SharedCentrifugal ==
  \A cv \in CurvesInPlay : \A r \in RatiosInPlay :
     /\ PlayerCentrifugal(r, cv) = RivalCentrifugal(r, cv)
     /\ RivalCentrifugal(r, cv) = CopCentrifugal(r, cv)

\* C28: after the knockback of a landed player hit the struck rival's
\* lateral offset lies within the track bounds, |x| <= 1.
C28_KnockbackInBounds ==
  \A k \in 1..Len(hits) :
     hits[k].targetIndex >= 1 => Abs(rivals[hits[k].targetIndex].x) <= XU

\* TRUE when rival i's swing reached its mid-point in the frame that led to
\* this state: the call of updateRivalAttacks in which its strike lands
StrikeLands(i) ==
  /\ run.simulated
  /\ combat.rivalStates[i].isAttacking
  /\ 2 * combat.rivalStates[i].attackTimer >= RIVAL_ATTACK_DURATION
  /\ 2 * (combat.rivalStates[i].attackTimer - FIXED_DT) < RIVAL_ATTACK_DURATION

\* the range test of updateRivalAttacks for rival rv and player p
InRivalRange(rv, p) ==
  /\ Abs(wrappedDelta(rv.z, p.z, TotalLength)) <= RIVAL_ATTACK_RANGE_Z
  /\ Abs(rv.x - p.x) <= RIVAL_ATTACK_RANGE_X

\* C29: a rival's strike damages the player only if the rival is within
\* attack range of the player when the strike lands: every hit on the player
\* in a frame belongs to a rival whose swing reached its mid-point in that
\* frame within RIVAL_ATTACK_RANGE_Z and RIVAL_ATTACK_RANGE_X of the player.
C29_StrikeInRange ==
  Len(hits) - PlayerHits(hits)
    <= Cardinality({i \in 1..Len(rivals) :
                      StrikeLands(i) /\ InRivalRange(rivals[i], player)})

\* TRUE when rival i starts a telegraph in this step
StartsTelegraph(i) ==
  ~combat.rivalStates[i].telegraphing /\ combat'.rivalStates[i].telegraphing

\* C30: a defensive rival starts a counter-attack (telegraph) only if the
\* player hit it within the preceding RIVAL_COUNTER_WINDOW of simulated
\* time; starting the counter clears its recently-hit flag in the same tick,
\* and it is the only counter started since that hit.
C30_CounterWindow ==
  [][ \A i \in 1..Len(rivals) :
        (rivals[i].personality = "defensive" /\ StartsTelegraph(i))
          => /\ run'.sinceHit[i] >= 0
             /\ run'.sinceHit[i] * FIXED_DT <= RIVAL_COUNTER_WINDOW
             /\ ~combat'.rivalStates[i].wasHitRecently
             /\ combat'.rivalStates[i].wasHitTimer = 0
             /\ run'.counters[i] = 1 ]_vars

\* a defensive rival has just started its counter on the last call on which
\* the flag of an old hit was still up
C30_Witness ==
  \E i \in 1..Len(rivals) :
     /\ rivals[i].personality = "defensive"
     /\ combat.rivalStates[i].telegraphing
     /\ combat.rivalStates[i].telegraphTimer = RIVAL_TELEGRAPH_DURATION \div 2
     /\ ~combat.rivalStates[i].wasHitRecently
     /\ run.sinceHit[i] = (RIVAL_COUNTER_WINDOW \div FIXED_DT) - 1
     /\ run.counters[i] = 1

\* landed hits of the player within COMBO_WINDOW when hit k of this frame
\* landed, that hit included
ComboAt(k) ==
  Cardinality({j \in 1..Len(run.hitAges) : run.hitAges[j] * FIXED_DT <= COMBO_WINDOW})
    - Cardinality({j \in (k + 1)..Len(hits) : hits[j].targetIndex >= 1})

\* the damage of the weapon in the player's hand when hit k of this frame
\* landed
WeaponDamageAt(k) ==
  IF run.picked # "none" /\ HitRank(k) <= WEAPON_STATS[run.picked].maxUses
    THEN WEAPON_STATS[run.picked].damage
    ELSE WEAPON_STATS.fist.damage

\* C31: a landed hit of the player that is at least the third one within the
\* rolling COMBO_WINDOW of simulated time, itself included, is critical
\* whatever the random roll, and its damage is round(weapon damage x 1.5).
C31_ComboCritical ==
  \A k \in 1..Len(hits) :
     (hits[k].targetIndex >= 1 /\ ComboAt(k) >= COMBO_THRESHOLD)
       => /\ hits[k].isCritical
          /\ hits[k].damage = RoundDiv(WeaponDamageAt(k) * 15, 10)

\* a punch (the random roll fails) lands as the third hit, the oldest of the
\* three a full COMBO_WINDOW ago, and is critical
C31_Witness ==
  /\ Len(hits) = 1 /\ hits[1].targetIndex >= 1 /\ hits[1].type = "punch"
  /\ hits[1].isCritical /\ hits[1].damage = 23
  /\ Len(run.hitAges) = 3
  /\ run.hitAges[1] * FIXED_DT = COMBO_WINDOW

\* C32: generateRoad does not fail on an integer selector outside 0..3: a
\* negative selector generates track 0, one above 3 generates track 3, and
\* the returned road has that track's number of segments (4000, 4500, 3500,
\* 5000).
C32_RoadClamped ==
  run.road # NoRoad
    => /\ run.road.trackId
            = (IF run.selector < 0 THEN 0 ELSE IF run.selector > 3 THEN 3 ELSE run.selector)
       /\ run.road.segments = <<4000, 4500, 3500, 5000>>[run.road.trackId + 1]

\* generateRoad has returned track 3 with its 5000 segments for a selector
\* above 3
C32_Witness ==
  run.selector > 3 /\ run.road = [trackId |-> 3, segments |-> 5000]

\* the same for a negative selector and track 0
C32_WitnessNegative ==
  run.selector < 0 /\ run.road = [trackId |-> 0, segments |-> 4000]

\* C33: the game loop steps at a constant dt: every updateFn call receives
\* FIXED_DT whatever the interval between animation frames, one animation
\* frame makes at most 5 updateFn calls, and after each animation frame
\* 0 <= accumulator < FIXED_DT.
C33_FixedStep ==
  /\ \A k \in 1..Len(run.loop.calls) : run.loop.calls[k] = FIXED_DT
  /\ Len(run.loop.calls) <= 5
  /\ 0 <= run.loop.accumulator
  /\ run.loop.accumulator < FIXED_DT

\* an animation frame a second after the previous one has made 5 calls
C33_Witness ==
  /\ run.loop.running
  /\ run.loop.clock - 600 >= 1
  /\ run.loop.lastTime = run.loop.clock
  /\ Len(run.loop.calls) = 5

\* an animation frame has made a call and kept a remainder
C33_WitnessRemainder ==
  /\ run.loop.running
  /\ Len(run.loop.calls) = 1
  /\ run.loop.accumulator = 7

\* C34: the race state machine follows TITLE -> TRACK_SELECT -> COUNTDOWN ->
\* RACING -> FINISHED -> BIKE_SHOP -> TRACK_SELECT: after a confirm on the
\* title screen the race is in TRACK_SELECT before it is in COUNTDOWN (and
\* TRACK_SELECT and BIKE_SHOP are states the race gets into).
C34_DocumentedFlow ==
  race.state = "COUNTDOWN" => "TRACK_SELECT" \in run.visited

\* the race is on the title screen or in one of COUNTDOWN, RACING, FINISHED
\* and BUSTED, whatever keys are pressed
C34_MenusNeverEntered ==
  /\ race.state \notin {"TRACK_SELECT", "BIKE_SHOP"}
  /\ run.visited \cap {"TRACK_SELECT", "BIKE_SHOP"} = {}

\* C35: one swing of the player damages the cop at most once: between the
\* start of a swing and its return to NONE hitCop is applied at most once.
C35_OneCopHitPerSwing == run.swingCopHits <= 1

\* C36: hitCop knocks an active, not wiped-out cop back 500 units along the
\* looped track: after the hit and the police update of the same tick the
\* cop is at (old z - 500) modulo the track length plus the forward motion of
\* that update, whatever the old position, positions below 500 included.
C36_KnockbackWraps ==
  run.copHit
    => police.cop.z
         = (((run.copZBefore - COP_KNOCKBACK_Z + TotalLength) % TotalLength)
              + Advance(police.cop.speed)) % TotalLength

\* the same for a cop that is hit 500 units or more from the start line
C36_KnockbackFromAfar ==
  (run.copHit /\ run.copZBefore >= COP_KNOCKBACK_Z) => C36_KnockbackWraps

\* C37: in FINISHED the earnings of a race are calculated once: whatever the
\* finishing position and however many ticks the race stays in FINISHED, the
\* cash is credited once and one raceHistory entry is appended for the race.
C37_EarningsOnce ==
  (race.state = "FINISHED" /\ run.coast >= 1)
    => /\ Len(race.progression.raceHistory) = run.historyAtStart + 1
       /\ race.progression.cash
            = run.cashAtStart
                + calculateEarnings(race.finishPosition, race.progression.currentTrackIndex)

\* the same for the positions that earn cash
C37_EarningsOncePaid ==
  calculateEarnings(race.finishPosition, race.progression.currentTrackIndex) > 0
    => C37_EarningsOnce

\* C38: a wiped-out rival never lands a hit on the player, a rival knocked
\* out while it telegraphs or swings included: the hits on the player in a
\* frame are no more than the rivals whose swing reached its mid-point in
\* that frame and that were not lying wiped out throughout it.
C38_WipedRivalNoHit ==
  Len(hits) - PlayerHits(hits)
    <= Cardinality({i \in 1..Len(rivals) : StrikeLands(i) /\ i \notin run.stayedDown})

\* the same for the rivals in attack range (the strike itself tests no range)
C38_StrikerCounted ==
  Len(hits) - PlayerHits(hits) <= Cardinality({i \in 1..Len(rivals) : StrikeLands(i)})

\* C39: a wiped-out player takes no damage: at the end of every tick a
\* wiped-out player has health 0, and the health of a player that lay wiped
\* out changes first when the recovery sets it to the respawn value.
C39_NoDamageWhileDown ==
  /\ player.isWipedOut => player.health = 0
  /\ (run.simulated /\ run.before.isWipedOut /\ player.health # run.before.health)
       => /\ ~player.isWipedOut
          /\ player.health = WIPEOUT_RESPAWN_HEALTH

\* a rival's swing has reached its mid-point over a player lying wiped out,
\* and no hit was dealt
C39_Witness ==
  /\ run.before.isWipedOut /\ player.isWipedOut /\ player.health = 0
  /\ \E i \in 1..NumRivals : StrikeLands(i)
  /\ hits = << >>

\* the player has recovered from its wipeout with the respawn health
C39_WitnessRecovered ==
  /\ run.simulated /\ run.before.isWipedOut /\ run.before.health = 0
  /\ ~player.isWipedOut /\ player.health = WIPEOUT_RESPAWN_HEALTH

\* C40: at the end of every RACING tick a rival is wiped out exactly when its
\* health is at or below 0: whatever takes the health to 0 or below starts
\* the wipeout on the same tick, and the recovery restores the health to
\* maxHealth in the step that clears isWipedOut.
C40_WipedIffDown ==
  /\ race.state = "RACING"
       => \A i \in 1..NumRivals : rivals[i].isWipedOut <=> rivals[i].health <= 0
  /\ \A i \in run.recoveredRivals : run.healthUpdated[i] = rivals[i].maxHealth

\* the player's hit has taken a rival's health below 0 and the rival is
\* wiped out at the end of that tick
C40_Witness ==
  /\ race.state = "RACING" /\ run.simulated
  /\ \E k \in 1..Len(hits) :
        /\ hits[k].targetIndex >= 1
        /\ rivals[hits[k].targetIndex].health < 0
        /\ rivals[hits[k].targetIndex].isWipedOut

\* a rival's wipeout has ended and it rides on with its full health
C40_WitnessRecovered ==
  /\ race.state = "RACING"
  /\ \E i \in run.recoveredRivals :
        ~rivals[i].isWipedOut /\ rivals[i].health = rivals[i].maxHealth

====
